---- MODULE Spec2Model ----
(***************************************************************************)
(* vmrunner: the HCS lifecycle facade (vmcompute.go), the VM record        *)
(* (vm.go) and the interactive `run` command (main.go).                    *)
(*                                                                         *)
(* The control service is the environment: it answers every call with an   *)
(* HRESULT drawn from HrValues and fires notifications from its own        *)
(* thread at any moment.  A goroutine of the program is a thread of        *)
(* Threads; pc is its position inside the facade function it is running    *)
(* and vpc its position in the caller of that function.                    *)
(***************************************************************************)
EXTENDS Integers, Sequences, FiniteSets, TLC

\* ------------------------------------------------------------------ bounds

\* Notifications the service fires while one facade call is running.
MaxNotifications == 2

\* --------------------------------------------------------------- constants

\* An HRESULT (and a notification's status word) is a 32-bit word, held as its
\* two 16-bit halves
Word(hi, lo) == [hi |-> hi, lo |-> lo]

S_OK == Word(0, 0)
\* const errOperationPending = uintptr(0xC0370103)
errOperationPending == Word(49207, 259)
\* a failing HRESULT (E_FAIL, 0x80004005) and a positive one (S_FALSE, 1)
E_FAIL == Word(32768, 16389)
S_FALSE == Word(0, 1)

hcsNotificationSystemExited == 1
hcsNotificationSystemCreateCompleted == 2
hcsNotificationSystemStartCompleted == 3

\* ch := make(chan error, 1)
ChanCap == 1

\* the handle value the service hands out for the one VM of the model
SystemHandle == 1

\* result slot of a service call that has not returned yet
InFlight == Word(-1, -1)

Threads == {"main", "sig"}
Ops == {"create", "start", "shutdown", "terminate"}
NotificationTypes == {hcsNotificationSystemExited,
                      hcsNotificationSystemCreateCompleted,
                      hcsNotificationSystemStartCompleted}
\* HRESULTs a lifecycle call can return
HrValues == {S_OK, S_FALSE, errOperationPending, E_FAIL}
\* status words a notification can carry
StatusValues == {S_OK, S_FALSE, E_FAIL}
\* HRESULTs of register / close
SimpleHrValues == {S_OK, E_FAIL}

\* ------------------------------------------------------------------ errors

\* int32(status): the word read as a signed number
Int32(w) == (IF w.hi >= 32768 THEN w.hi - 65536 ELSE w.hi) * 65536 + w.lo

Nil == [kind |-> "nil", code |-> S_OK, detail |-> "", ctx |-> <<>>]

\* hresultError(hr, detail): nil for 0, otherwise an error carrying uint32(hr)
\* and the detail text
hresultError(h, detail) ==
    IF h = S_OK THEN Nil
    ELSE [kind |-> "hresult", code |-> h, detail |-> detail, ctx |-> <<>>]

\* syscall.UTF16PtrFromString on a string holding a NUL
EINVAL == [kind |-> "einval", code |-> S_OK, detail |-> "", ctx |-> <<>>]

\* fmt.Errorf("timeout after %s waiting for HCS notification", timeout)
TimeoutError(seconds) ==
    [kind |-> "timeout", code |-> Word(0, seconds), detail |-> "", ctx |-> <<>>]

\* %X of a number
HexDigits == <<"0", "1", "2", "3", "4", "5", "6", "7",
               "8", "9", "A", "B", "C", "D", "E", "F">>
RECURSIVE HexOf(_)
HexOf(n) ==
    IF n < 16 THEN HexDigits[n + 1]
    ELSE HexOf(n \div 16) \o HexDigits[(n % 16) + 1]

\* the older waitForSystemNotification:
\* fmt.Errorf("timeout after %s waiting for HCS notification 0x%X", timeout, uint32(want))
TimeoutErrorNaming(seconds, want) ==
    [kind |-> "timeout", code |-> Word(0, seconds), detail |-> "0x" \o HexOf(want),
     ctx |-> <<>>]

\* fmt.Errorf("<prefix>: %w", err)
Wrap(prefix, e) == [e EXCEPT !.ctx = <<prefix>> \o @]

\* ------------------------------------------------------- per-operation data

\* start, shutdown and terminate of the older facade, which registers its
\* callback through waitForSystemNotification once the call returned pending
OlderOps == {"old start", "old shutdown", "old terminate"}
\* the operation an older facade function is the earlier version of
Base(o) ==
    CASE o = "old start" -> "start"
      [] o = "old shutdown" -> "shutdown"
      [] o = "old terminate" -> "terminate"
      [] OTHER -> o

\* the notification each operation waits for
WantOf(o) ==
    CASE Base(o) = "create" -> hcsNotificationSystemCreateCompleted
      [] Base(o) = "start" -> hcsNotificationSystemStartCompleted
      [] OTHER -> hcsNotificationSystemExited

CeilingOfShutdownForAll(o) == 30
\* the ceiling of each operation's Wait, in seconds
CeilingOf(o) ==
    CASE Base(o) = "create" -> 60
      [] Base(o) = "start" -> 120
      [] Base(o) = "shutdown" -> 30
      [] OTHER -> 10

\* the error of a Wait that ran into its ceiling
TimeoutOf(o) ==
    IF o \in OlderOps THEN TimeoutErrorNaming(CeilingOf(o), WantOf(o))
    ELSE TimeoutError(CeilingOf(o))

\* the service entry point each operation calls
ApiOf(o) ==
    CASE Base(o) = "create" -> "HcsCreateComputeSystem"
      [] Base(o) = "start" -> "HcsStartComputeSystem"
      [] Base(o) = "shutdown" -> "HcsShutdownComputeSystem"
      [] OTHER -> "HcsTerminateComputeSystem"

LifecycleApis == {ApiOf(o) : o \in Ops}

PreRegistersAll(o) == TRUE
PreRegistersNone(o) == FALSE
PreRegistersOlderToo(o) == Base(o) \in {"start", "shutdown", "terminate"}
\* start, shutdown and terminate create their waiter before the call; create
\* has no handle before the call and registers through
\* waitForSystemNotification once the call has returned pending
PreRegisters(o) == o \in {"start", "shutdown", "terminate"}

OutcomePendingIsFailure(h) == IF h # S_OK THEN "failure" ELSE "success"
\* the three outcomes of a lifecycle call
Outcome(h) ==
    IF h # S_OK /\ h # errOperationPending THEN "failure"
    ELSE IF h = errOperationPending THEN "pending"
    ELSE "success"

\* the error the callback hands over: set only for a negative int32(status)
CallbackErr(status) ==
    IF Int32(status) < 0 THEN hresultError(status, "") ELSE Nil

CallbackSendAnyType(c, notType, want, status) ==
    IF Len(c) < ChanCap THEN Append(c, CallbackErr(status)) ELSE c
CallbackSendUnbounded(c, notType, want, status) ==
    IF notType = want THEN Append(c, CallbackErr(status)) ELSE c
\* the callback body: a notification of the wanted type is sent without
\* blocking into the one-slot channel, anything else is ignored
CallbackSend(c, notType, want, status) ==
    IF notType = want
    THEN IF Len(c) < ChanCap THEN Append(c, CallbackErr(status)) ELSE c
    ELSE c

AfterRegisterFailureProceeds(o) ==
    IF o = "create" THEN "closefail" ELSE "convert"
\* where an operation goes when registering its callback failed
AfterRegisterFailure(o) == IF o = "create" THEN "closefail" ELSE "done"

AfterReturnLeaks(registered) == "done"
\* leaving a facade function: the deferred waiter.Close() runs first
AfterReturn(registered) == IF registered THEN "unregister" ELSE "done"

ClosesOnWaitFailureNever(o, e) == FALSE
\* HcsCreateComputeSystem closes the handle when its wait failed
ClosesOnWaitFailure(o, e) == o = "create" /\ e # Nil

\* the first pc of an operation
Entry(o) == IF PreRegisters(o) THEN "register" ELSE "convert"

\* ------------------------------------------------------------------- state

VARIABLES
    pc,        \* thread -> position in the facade function
    op,        \* thread -> facade function being run ("none" outside one)
    argsOk,    \* thread -> the string arguments convert to UTF-16
    reg,       \* thread -> its waiter's callback is registered
    ch,        \* thread -> contents of its waiter's channel
    hr,        \* thread -> HRESULT of its lifecycle call (InFlight before)
    ret,       \* thread -> what the facade function returned
    calls,     \* thread -> service calls of its current facade function and
               \*           of that function's caller since, in order, with results
    closes,    \* HcsCloseComputeSystem calls made on the VM's handle so far
    notified,  \* thread -> notifications fired while the operation a client
               \*           called on it ran
    entered,   \* thread -> facade functions it has called, in order
    vpc,       \* thread -> position in the caller (vm.go, main.go)
    shutdownErr, \* thread -> err of VM.Shutdown: what HcsShutdownComputeSystem returned
    vret,      \* thread -> what VM.Shutdown returned
    alive      \* the process is running

lifecycleVars == <<pc, op, argsOk, reg, ch, hr, ret, calls, closes, notified,
                   entered, vpc, shutdownErr, vret, alive>>

\* the console side (process.go)
VARIABLES
    hostIn,    \* bytes of host input not read yet
    consumed,  \* bytes of host input the transform has been given
    piped,     \* bytes the transform has produced for the console channel
    prevCR,    \* stdinToPipe's prevCR: the last byte it saw was a CR
    pass,      \* 0: no transform runs; 1: on host input; 2: on its own output
    firstOut   \* what the first pass produced

transformVars == <<hostIn, consumed, piped, prevCR, pass, firstOut>>

VARIABLES
    oKind,     \* which open-with-retry runs: "overlapped" or "sync"
    oNameOk,   \* the pipe name converts to UTF-16 (holds no NUL)
    oDeadline, \* deadline of the retry loop, in ticks of 100 ms
    oNow,      \* the clock, in ticks of 100 ms since the call
    oPc,       \* position in the retry loop
    oLast,     \* error of the last failed attempt
    oAttempts, \* attempts made
    oOpened,   \* an attempt has opened the pipe
    oRet       \* what the call returned: handle and error

openVars == <<oKind, oNameOk, oDeadline, oNow, oPc, oLast, oAttempts, oOpened, oRet>>

VARIABLES
    guest,     \* the guest behind the console: what it prints at first, what
               \* it prints after a command line, whether it then hangs up
    gOut,      \* bytes the guest is about to print
    gGot,      \* the command line the guest has received
    gClosed,   \* the guest has closed its end of the pipe
    toHost,    \* bytes in the pipe, guest to host
    toGuest,   \* bytes in the pipe, host to guest
    rcPc,      \* position in RunCommand
    rcArgs,    \* RunCommand's args
    rcOpen,    \* RunCommand's file f is open
    last,      \* the scanner's last / prev byte
    stdout,    \* bytes written to os.Stdout
    rcRet      \* what RunCommand returned

commandVars == <<guest, gOut, gGot, gClosed, toHost, toGuest, rcPc, rcArgs,
                 rcOpen, last, stdout, rcRet>>

VARIABLES
    isPc,      \* position in InteractiveShell
    isRet,     \* what InteractiveShell returned
    hOpen,     \* the console handle h is open
    fpc,       \* flow -> position in pipeToStdout / stdinToPipe
    fres,      \* flow -> what its function returned
    fcause,    \* flow -> the I/O error that made its function return
    done,      \* flow -> contents of readerDone / writerDone
    handed,    \* history: the flows in the order of their sends on the two channels
    io,        \* flow -> its overlapped operation: "none", "pending", "complete"
    ioErr,     \* flow -> the error its completed operation ended with
    ev,        \* flow -> the event that flow created is signaled
    rbuf,      \* bytes a completed overlapped read has put in buf
    mode,      \* the console input mode of the host terminal, as its set of bits
    oldMode,   \* the mode prepareRawConsole saved
    restoreArmed, \* stdinToPipe has deferred restore()
    isConsole, \* the host's standard input is a console
    hostEnd,   \* what a read of exhausted host input does: "idle", "eof", "error"
    outBuf,    \* stdinToPipe's outBuf, about to be written
    readErr,   \* stdinToPipe's readErr of the current iteration
    readVia,   \* the call stdinToPipe last read host input with
    readN      \* stdinToPipe's n of the current iteration

sessionVars == <<isPc, isRet, hOpen, fpc, fres, fcause, done, handed, io, ioErr,
                 ev, rbuf, mode, oldMode, restoreArmed, isConsole, hostEnd, outBuf, readErr,
                 readVia, readN>>

\* the in-guest process adapter (process.go, RunProcess) and its caller
VARIABLES
    rpPc,      \* position in RunProcess
    rpArgs,    \* RunProcess's args
    rpCmdLine, \* the CommandLine of the process parameters
    rpHr,      \* HRESULT of the HcsCreateProcess service call (InFlight before)
    rpInfo,    \* the HcsProcessInformation the service filled in
    rpExit,    \* the exit status the guest process ends with
    rpStreams, \* the stdio files RunProcess holds open
    rpCopies,  \* the io.Copy goroutines of RunProcess that still run
    rpProcCloses, \* HcsCloseProcess calls made
    rpRet,     \* what RunProcess returned: exit code and error
    rpFallback \* the caller ran the command over the serial console instead

processVars == <<rpPc, rpArgs, rpCmdLine, rpHr, rpInfo, rpExit, rpStreams,
                 rpCopies, rpProcCloses, rpRet, rpFallback>>

\* the commands of vm.go and main.go
VARIABLES
    cmd,       \* the command that runs: "run", "runi", "exec", "stop", "kill"
    cfgOk,     \* cfg.ImageDir is not empty
    idOk,      \* the VM id holds no NUL: UTF16PtrFromString(id) succeeds
    trail,     \* service calls of the command's earlier facade functions and
               \* of the command between them, in order, with results
    held,      \* where the handle the command holds came from: "none",
               \* "open", "create"
    hclosed,   \* HcsCloseComputeSystem calls the command made on that handle
    vmRec,     \* vm.Start returned a VM record
    opRet      \* what the command (for run and runi: vm.Start) returned

opsVars == <<cmd, cfgOk, idOk, trail, held, hclosed, vmRec, opRet>>

consoleVars == <<transformVars, openVars, commandVars, sessionVars, processVars,
                 opsVars>>

\* what the transform leaves alone, what an open-with-retry does, and what
\* RunCommand does
exceptTransform == <<lifecycleVars, openVars, commandVars, sessionVars,
                     processVars, opsVars>>
exceptOpen == <<lifecycleVars, transformVars, commandVars, sessionVars,
                processVars, opsVars>>
exceptCommand == <<lifecycleVars, transformVars, openVars, sessionVars,
                   processVars, opsVars>>
\* what RunProcess and its caller leave alone, and what a command of vm.go does
exceptProcess == <<lifecycleVars, transformVars, openVars, commandVars,
                   sessionVars, opsVars>>
opsFrame == <<transformVars, openVars, commandVars, sessionVars, processVars>>

\* what an interactive session never touches
sessionFrame == <<pc, op, argsOk, reg, ch, hr, ret, calls, notified, entered,
                  shutdownErr, vret, pass, firstOut, openVars, guest, gGot,
                  gClosed, toGuest, rcPc, rcArgs, rcOpen, last, rcRet,
                  isConsole, hostEnd, processVars, opsVars>>

Flows == {"reader", "writer"}

vars == <<lifecycleVars, consoleVars>>

\* no transform is running
TransformIdle ==
    /\ hostIn = <<>>
    /\ consumed = <<>>
    /\ piped = <<>>
    /\ prevCR = FALSE
    /\ pass = 0
    /\ firstOut = <<>>

\* no open-with-retry is running
OpenIdle ==
    /\ oKind = "overlapped"
    /\ oNameOk = TRUE
    /\ oDeadline = 0
    /\ oNow = 0
    /\ oPc = "off"
    /\ oLast = Nil
    /\ oAttempts = 0
    /\ oOpened = FALSE
    /\ oRet = [handle |-> 0, err |-> Nil]

\* no RunCommand is running
CommandIdle ==
    /\ guest = [first |-> <<>>, reply |-> <<>>, closes |-> FALSE]
    /\ gOut = <<>>
    /\ gGot = <<>>
    /\ gClosed = FALSE
    /\ toHost = <<>>
    /\ toGuest = <<>>
    /\ rcPc = "off"
    /\ rcArgs = <<>>
    /\ rcOpen = FALSE
    /\ last = 0
    /\ stdout = <<>>
    /\ rcRet = Nil

\* no InteractiveShell is running
SessionIdle ==
    /\ isPc = "off"
    /\ isRet = Nil
    /\ hOpen = FALSE
    /\ fpc = [f \in Flows |-> "off"]
    /\ fres = [f \in Flows |-> Nil]
    /\ fcause = [f \in Flows |-> Nil]
    /\ done = [f \in Flows |-> <<>>]
    /\ handed = <<>>
    /\ io = [f \in Flows |-> "none"]
    /\ ioErr = [f \in Flows |-> Nil]
    /\ ev = [f \in Flows |-> FALSE]
    /\ rbuf = <<>>
    /\ mode = {}
    /\ oldMode = {}
    /\ restoreArmed = FALSE
    /\ isConsole = FALSE
    /\ hostEnd = "idle"
    /\ outBuf = <<>>
    /\ readErr = Nil
    /\ readVia = "none"
    /\ readN = 0

NoProcessInfo == [StdInput |-> 0, StdOutput |-> 0, StdError |-> 0]

\* no RunProcess is running
ProcessIdle ==
    /\ rpPc = "off"
    /\ rpArgs = <<>>
    /\ rpCmdLine = <<>>
    /\ rpHr = InFlight
    /\ rpInfo = NoProcessInfo
    /\ rpExit = 0
    /\ rpStreams = {}
    /\ rpCopies = {}
    /\ rpProcCloses = 0
    /\ rpRet = [code |-> 0, err |-> Nil]
    /\ rpFallback = FALSE

\* no command of vm.go is running
OpsIdle ==
    /\ cmd = "none"
    /\ cfgOk = TRUE
    /\ idOk = TRUE
    /\ trail = <<>>
    /\ held = "none"
    /\ hclosed = 0
    /\ vmRec = FALSE
    /\ opRet = Nil

\* the console side and the callers of the facade are not in use
ConsoleIdle ==
    /\ TransformIdle
    /\ OpenIdle
    /\ CommandIdle
    /\ SessionIdle
    /\ ProcessIdle
    /\ OpsIdle

NoReturn == [err |-> Nil, system |-> 0]

InitLifecycle ==
    /\ pc = [t \in Threads |-> "idle"]
    /\ op = [t \in Threads |-> "none"]
    /\ argsOk = [t \in Threads |-> TRUE]
    /\ reg = [t \in Threads |-> FALSE]
    /\ ch = [t \in Threads |-> <<>>]
    /\ hr = [t \in Threads |-> InFlight]
    /\ ret = [t \in Threads |-> NoReturn]
    /\ calls = [t \in Threads |-> <<>>]
    /\ closes = 0
    /\ notified = [t \in Threads |-> <<>>]
    /\ entered = [t \in Threads |-> <<>>]
    /\ shutdownErr = [t \in Threads |-> Nil]
    /\ vret = [t \in Threads |-> Nil]
    /\ alive = TRUE

\* the facade before any call, the console side unused
InitFacade ==
    /\ InitLifecycle
    /\ ConsoleIdle

\* a client is about to call one facade function
Init ==
    /\ InitFacade
    /\ vpc = [t \in Threads |-> IF t = "main" THEN "client" ELSE "off"]

Issue(t, api, result) ==
    [calls EXCEPT ![t] = Append(@, [api |-> api, hr |-> result])]

\* ------------------------------------------------------- facade (vmcompute)

\* entering facade function o on thread t with the given arguments
Enter(t, o, ok) ==
    /\ pc' = [pc EXCEPT ![t] = Entry(o)]
    /\ op' = [op EXCEPT ![t] = o]
    /\ argsOk' = [argsOk EXCEPT ![t] = ok]
    /\ hr' = [hr EXCEPT ![t] = InFlight]
    /\ ret' = [ret EXCEPT ![t] = NoReturn]
    /\ notified' = [notified EXCEPT ![t] = <<>>]
    /\ entered' = [entered EXCEPT ![t] = Append(@, o)]
    /\ calls' = [calls EXCEPT ![t] = <<>>]
    /\ UNCHANGED <<reg, ch, closes>>

\* the client calls HcsCreate/Start/Shutdown/TerminateComputeSystem
Invoke(t, o, ok) ==
    /\ alive
    /\ vpc[t] = "client"
    /\ pc[t] = "idle"
    /\ Enter(t, o, ok)
    /\ vpc' = [vpc EXCEPT ![t] = "called"]
    /\ UNCHANGED <<shutdownErr, vret, alive>>
    /\ UNCHANGED consoleVars

\* newNotificationWaiter: make the channel and register the callback
newNotificationWaiter(t) ==
    /\ alive
    /\ pc[t] = "register"
    /\ \E r \in SimpleHrValues :
         /\ calls' = Issue(t, "HcsRegisterComputeSystemCallback", r)
         /\ IF r = S_OK
            THEN /\ reg' = [reg EXCEPT ![t] = TRUE]
                 /\ ch' = [ch EXCEPT ![t] = <<>>]
                 /\ pc' = [pc EXCEPT ![t] =
                             IF PreRegisters(op[t]) THEN "convert" ELSE "wait"]
                 /\ UNCHANGED ret
            ELSE /\ ret' = [ret EXCEPT ![t] =
                     [err |-> IF PreRegisters(op[t])
                              THEN Wrap("register " \o op[t] \o " callback",
                                        hresultError(r, "HcsRegisterComputeSystemCallback"))
                              ELSE hresultError(r, "HcsRegisterComputeSystemCallback"),
                      system |-> 0]]
                 /\ pc' = [pc EXCEPT ![t] = AfterRegisterFailure(op[t])]
                 /\ UNCHANGED <<reg, ch>>
    /\ UNCHANGED <<op, argsOk, hr, closes, notified, entered, vpc, shutdownErr, vret, alive>>
    /\ UNCHANGED consoleVars

\* syscall.UTF16PtrFromString on the id/configuration or the options
ConvertArguments(t) ==
    /\ alive
    /\ pc[t] = "convert"
    /\ IF argsOk[t]
       THEN /\ pc' = [pc EXCEPT ![t] = "call"]
            /\ UNCHANGED ret
       ELSE /\ ret' = [ret EXCEPT ![t] = [err |-> EINVAL, system |-> 0]]
            /\ pc' = [pc EXCEPT ![t] = AfterReturn(reg[t])]
    /\ UNCHANGED <<op, argsOk, reg, ch, hr, calls, closes, notified, entered, vpc, shutdownErr, vret, alive>>
    /\ UNCHANGED consoleVars

\* proc....Call(...): the lifecycle call enters the service
IssueCall(t) ==
    /\ alive
    /\ pc[t] = "call"
    /\ calls' = Issue(t, ApiOf(op[t]), InFlight)
    /\ pc' = [pc EXCEPT ![t] = "incall"]
    /\ UNCHANGED <<op, argsOk, reg, ch, hr, ret, closes, notified, entered, vpc, shutdownErr, vret, alive>>
    /\ UNCHANGED consoleVars

\* the lifecycle call returns h and the function interprets it
ReturnCall(t, h) ==
    /\ alive
    /\ pc[t] = "incall"
    /\ hr' = [hr EXCEPT ![t] = h]
    /\ calls' = [calls EXCEPT ![t][Len(calls[t])].hr = h]
    /\ CASE Outcome(h) = "failure" ->
              /\ ret' = [ret EXCEPT ![t] = [err |-> hresultError(h, ""), system |-> 0]]
              /\ pc' = [pc EXCEPT ![t] = AfterReturn(reg[t])]
         [] Outcome(h) = "pending" ->
              /\ pc' = [pc EXCEPT ![t] =
                          IF PreRegisters(op[t]) THEN "wait" ELSE "register"]
              /\ UNCHANGED ret
         [] OTHER ->
              /\ ret' = [ret EXCEPT ![t] =
                          [err |-> Nil,
                           system |-> IF op[t] = "create" THEN SystemHandle ELSE 0]]
              /\ pc' = [pc EXCEPT ![t] = AfterReturn(reg[t])]
    /\ UNCHANGED <<op, argsOk, reg, ch, closes, notified, entered, vpc, shutdownErr, vret, alive>>
    /\ UNCHANGED consoleVars

\* Wait: case err := <-w.ch
WaitReceive(t) ==
    /\ alive
    /\ pc[t] = "wait"
    /\ ch[t] # <<>>
    /\ ret' = [ret EXCEPT ![t] =
                [err |-> Head(ch[t]),
                 system |-> IF op[t] = "create" /\ Head(ch[t]) = Nil
                            THEN SystemHandle ELSE 0]]
    /\ ch' = [ch EXCEPT ![t] = Tail(@)]
    /\ pc' = [pc EXCEPT ![t] = AfterReturn(reg[t])]
    /\ UNCHANGED <<op, argsOk, reg, hr, calls, closes, notified, entered, vpc, shutdownErr, vret, alive>>
    /\ UNCHANGED consoleVars

\* Wait: case <-time.After(timeout), the channel still being empty
WaitTimeout(t) ==
    /\ alive
    /\ pc[t] = "wait"
    /\ ch[t] = <<>>
    /\ ret' = [ret EXCEPT ![t] = [err |-> TimeoutOf(op[t]), system |-> 0]]
    /\ pc' = [pc EXCEPT ![t] = AfterReturn(reg[t])]
    /\ UNCHANGED <<op, argsOk, reg, ch, hr, calls, closes, notified, entered, vpc, shutdownErr, vret, alive>>
    /\ UNCHANGED consoleVars

\* the deferred waiter.Close(): unregister the callback
WaiterClose(t) ==
    /\ alive
    /\ pc[t] = "unregister"
    /\ calls' = Issue(t, "HcsUnregisterComputeSystemCallback", S_OK)
    /\ reg' = [reg EXCEPT ![t] = FALSE]
    /\ pc' = [pc EXCEPT ![t] =
                IF ClosesOnWaitFailure(op[t], ret[t].err) THEN "closefail" ELSE "done"]
    /\ UNCHANGED <<op, argsOk, ch, hr, ret, closes, notified, entered, vpc, shutdownErr, vret, alive>>
    /\ UNCHANGED consoleVars

\* HcsCreateComputeSystem after a failed wait: close the handle, return 0
\* and the wrapped error
CreateCloseOnWaitFailure(t) ==
    /\ alive
    /\ pc[t] = "closefail"
    /\ \E r \in SimpleHrValues :
         calls' = Issue(t, "HcsCloseComputeSystem", r)
    /\ closes' = closes + 1
    /\ ret' = [ret EXCEPT ![t] = [err |-> Wrap("wait for create", ret[t].err),
                                  system |-> 0]]
    /\ pc' = [pc EXCEPT ![t] = "done"]
    /\ UNCHANGED <<op, argsOk, reg, ch, hr, notified, entered, vpc, shutdownErr, vret, alive>>
    /\ UNCHANGED consoleVars

Running(t) == pc[t] \notin {"idle", "done"}

\* the service fires a notification on the system: every registered callback
\* runs; threads inside an operation see it in their record
Notify(notType, status) ==
    /\ alive
    /\ \E t \in Threads : Running(t)
    /\ \A t \in Threads : Len(notified[t]) < MaxNotifications
    /\ notified' = [t \in Threads |->
          IF vpc[t] = "called" /\ (Running(t) \/ reg[t])
          THEN Append(notified[t], [notType |-> notType, status |-> status,
                                    at |-> pc[t], cb |-> reg[t]])
          ELSE notified[t]]
    /\ ch' = [t \in Threads |->
          IF reg[t] THEN CallbackSend(ch[t], notType, WantOf(op[t]), status)
          ELSE ch[t]]
    /\ UNCHANGED <<pc, op, argsOk, reg, hr, ret, calls, closes, entered, vpc,
                   shutdownErr, vret, alive>>
    /\ UNCHANGED consoleVars

FacadeStep(t) ==
    \/ newNotificationWaiter(t)
    \/ ConvertArguments(t)
    \/ IssueCall(t)
    \/ \E h \in HrValues : ReturnCall(t, h)
    \/ WaitReceive(t)
    \/ WaitTimeout(t)
    \/ WaiterClose(t)

Next ==
    \/ \E o \in Ops, ok \in BOOLEAN : Invoke("main", o, ok)
    \/ FacadeStep("main")
    \/ CreateCloseOnWaitFailure("main")
    \/ \E k \in NotificationTypes, s \in StatusValues : Notify(k, s)

Spec == Init /\ [][Next]_vars

\* ----------------------------------------------------- VM.Shutdown (vm.go)

FallsBackNever(e) == FALSE
\* VM.Shutdown falls back to terminate when the graceful shutdown failed
FallsBack(e) == e # Nil

\* err := vmcompute.HcsShutdownComputeSystem(v.system, "")
ShutdownBegin(t) ==
    /\ alive
    /\ vpc[t] = "sd_begin"
    /\ Enter(t, "shutdown", TRUE)
    /\ vpc' = [vpc EXCEPT ![t] = "sd_shutdown"]
    /\ UNCHANGED <<shutdownErr, vret, alive>>
    /\ UNCHANGED consoleVars

\* if err != nil: log and call HcsTerminateComputeSystem(v.system, "")
ShutdownFailed(t) ==
    /\ alive
    /\ vpc[t] = "sd_shutdown"
    /\ pc[t] = "done"
    /\ FallsBack(ret[t].err)
    /\ shutdownErr' = [shutdownErr EXCEPT ![t] = ret[t].err]
    /\ Enter(t, "terminate", TRUE)
    /\ vpc' = [vpc EXCEPT ![t] = "sd_terminate"]
    /\ UNCHANGED <<vret, alive>>
    /\ UNCHANGED consoleVars

\* err == nil: go on to the sleep
ShutdownSucceeded(t) ==
    /\ alive
    /\ vpc[t] = "sd_shutdown"
    /\ pc[t] = "done"
    /\ ~FallsBack(ret[t].err)
    /\ shutdownErr' = [shutdownErr EXCEPT ![t] = ret[t].err]
    /\ vpc' = [vpc EXCEPT ![t] = "sd_sleep"]
    /\ UNCHANGED <<pc, op, argsOk, reg, ch, hr, ret, calls, closes, notified, entered,
                   vret, alive>>
    /\ UNCHANGED consoleVars

\* termErr != nil: close the handle and return "terminate: termErr"
TerminateFailed(t) ==
    /\ alive
    /\ vpc[t] = "sd_terminate"
    /\ pc[t] = "done"
    /\ ret[t].err # Nil
    /\ \E r \in SimpleHrValues : calls' = Issue(t, "HcsCloseComputeSystem", r)
    /\ closes' = closes + 1
    /\ vret' = [vret EXCEPT ![t] = Wrap("terminate", ret[t].err)]
    /\ vpc' = [vpc EXCEPT ![t] = "sd_done"]
    /\ UNCHANGED <<pc, op, argsOk, reg, ch, hr, ret, notified, entered,
                   shutdownErr, alive>>
    /\ UNCHANGED consoleVars

\* termErr == nil: go on to the sleep
TerminateSucceeded(t) ==
    /\ alive
    /\ vpc[t] = "sd_terminate"
    /\ pc[t] = "done"
    /\ ret[t].err = Nil
    /\ vpc' = [vpc EXCEPT ![t] = "sd_sleep"]
    /\ UNCHANGED <<pc, op, argsOk, reg, ch, hr, ret, calls, closes, notified, entered,
                   shutdownErr, vret, alive>>
    /\ UNCHANGED consoleVars

\* time.Sleep(500 * time.Millisecond) has elapsed
SleepElapsed(t) ==
    /\ alive
    /\ vpc[t] = "sd_sleep"
    /\ vpc' = [vpc EXCEPT ![t] = "sd_close"]
    /\ UNCHANGED <<pc, op, argsOk, reg, ch, hr, ret, calls, closes, notified, entered,
                   shutdownErr, vret, alive>>
    /\ UNCHANGED consoleVars

\* HcsCloseComputeSystem(v.system); return "close: err" or nil
CloseHandle(t) ==
    /\ alive
    /\ vpc[t] = "sd_close"
    /\ \E r \in SimpleHrValues :
         /\ calls' = Issue(t, "HcsCloseComputeSystem", r)
         /\ vret' = [vret EXCEPT ![t] =
                       IF hresultError(r, "") # Nil
                       THEN Wrap("close", hresultError(r, "")) ELSE Nil]
    /\ closes' = closes + 1
    /\ vpc' = [vpc EXCEPT ![t] = "sd_done"]
    /\ UNCHANGED <<pc, op, argsOk, reg, ch, hr, ret, notified, entered,
                   shutdownErr, alive>>
    /\ UNCHANGED consoleVars

ShutdownStep(t) ==
    \/ ShutdownBegin(t)
    \/ ShutdownFailed(t)
    \/ ShutdownSucceeded(t)
    \/ TerminateFailed(t)
    \/ TerminateSucceeded(t)
    \/ SleepElapsed(t)
    \/ CloseHandle(t)

\* one call of VM.Shutdown on a started VM
InitShutdown ==
    /\ InitFacade
    /\ vpc = [t \in Threads |-> IF t = "main" THEN "sd_begin" ELSE "off"]

NextShutdown ==
    \/ ShutdownStep("main")
    \/ FacadeStep("main")
    \/ \E k \in NotificationTypes, s \in StatusValues : Notify(k, s)

SpecShutdown == InitShutdown /\ [][NextShutdown]_vars

\* ------------------------------------------------- cmdRun -i (main.go)

\* machine.InteractiveShell(cfg.PipeName) returns
ShellEnds ==
    /\ alive
    /\ vpc["main"] = "shell"
    /\ vpc' = [vpc EXCEPT !["main"] = "sd_begin"]
    /\ UNCHANGED <<pc, op, argsOk, reg, ch, hr, ret, calls, closes, notified, entered,
                   shutdownErr, vret, alive>>
    /\ UNCHANGED consoleVars

\* sig := <-sigCh in the signal goroutine
SignalReceived ==
    /\ alive
    /\ vpc["sig"] = "sigwait"
    /\ vpc' = [vpc EXCEPT !["sig"] = "sd_begin"]
    /\ UNCHANGED <<pc, op, argsOk, reg, ch, hr, ret, calls, closes, notified, entered,
                   shutdownErr, vret, alive>>
    /\ UNCHANGED consoleVars

\* machine.Shutdown returned on the main path: cmdRun and main return
MainReturns ==
    /\ alive
    /\ vpc["main"] = "sd_done"
    /\ alive' = FALSE
    /\ vpc' = [vpc EXCEPT !["main"] = "returned"]
    /\ UNCHANGED <<pc, op, argsOk, reg, ch, hr, ret, calls, closes, notified, entered,
                   shutdownErr, vret>>
    /\ UNCHANGED consoleVars

\* machine.Shutdown returned in the signal goroutine: os.Exit(0)
SignalExit ==
    /\ alive
    /\ vpc["sig"] = "sd_done"
    /\ alive' = FALSE
    /\ vpc' = [vpc EXCEPT !["sig"] = "exited"]
    /\ UNCHANGED <<pc, op, argsOk, reg, ch, hr, ret, calls, closes, notified, entered,
                   shutdownErr, vret>>
    /\ UNCHANGED consoleVars

\* vm.Start succeeded, the signal goroutine is parked on sigCh and
\* InteractiveShell is running
InitRun ==
    /\ InitFacade
    /\ vpc = [t \in Threads |-> IF t = "main" THEN "shell" ELSE "sigwait"]

\* what the service answers and fires during a run: each outcome of a call,
\* and the exit of the VM with or without a failure status
RunHrValues == {S_OK, errOperationPending, E_FAIL}
RunStatusValues == {S_OK, E_FAIL}

RunFacadeStep(t) ==
    \/ newNotificationWaiter(t)
    \/ ConvertArguments(t)
    \/ IssueCall(t)
    \/ \E h \in RunHrValues : ReturnCall(t, h)
    \/ WaitReceive(t)
    \/ WaitTimeout(t)
    \/ WaiterClose(t)

NextRun ==
    \/ ShellEnds
    \/ SignalReceived
    \/ MainReturns
    \/ SignalExit
    \/ \E t \in Threads : ShutdownStep(t)
    \/ \E t \in Threads : RunFacadeStep(t)
    \/ \E s \in RunStatusValues : Notify(hcsNotificationSystemExited, s)

SpecRun == InitRun /\ [][NextRun]_vars

\* ------------------------------------------------- reading the service log

Main == "main"

CountCalls(t, api) == Cardinality({i \in DOMAIN calls[t] : calls[t][i].api = api})
RegisteredOk(t) ==
    {i \in DOMAIN calls[t] :
        /\ calls[t][i].api = "HcsRegisterComputeSystemCallback"
        /\ calls[t][i].hr = S_OK}
RegisterFailed(t) ==
    {i \in DOMAIN calls[t] :
        /\ calls[t][i].api = "HcsRegisterComputeSystemCallback"
        /\ calls[t][i].hr # S_OK}
LifecycleCalls(t) == {i \in DOMAIN calls[t] : calls[t][i].api \in LifecycleApis}

Least(S) == CHOOSE i \in S : \A j \in S : i <= j
Negative(w) == w.hi >= 32768
\* positions of the thread up to the end of its Wait
UntilWaitEnds == {"register", "convert", "call", "incall", "wait"}
\* notifications of the wanted type that ran the thread's callback before its
\* Wait ended
DeliveredWanted(t) ==
    {i \in DOMAIN notified[t] :
        /\ notified[t][i].cb
        /\ notified[t][i].notType = WantOf(op[t])
        /\ notified[t][i].at \in UntilWaitEnds}
\* the thread's operation has left its Wait (or never entered one)
PastWait(t) == pc[t] \in {"unregister", "closefail", "done"}
\* the thread's operation entered Wait
Waited(t) == hr[t] = errOperationPending /\ RegisteredOk(t) # {}

\* ------------------------------------------------------------------ claims

\* C1: a waiter for kind K is resolved only by a notification of kind K:
\* nothing is in its channel unless a notification of kind K ran its
\* callback, and a Wait during which only other kinds were delivered ends in
\* the timeout.
C1_ResolvesOnlyOnWantedType ==
    \A t \in Threads :
        /\ ch[t] # <<>> =>
              \E i \in DOMAIN notified[t] :
                  notified[t][i].cb /\ notified[t][i].notType = WantOf(op[t])
        /\ (PastWait(t) /\ Waited(t) /\ DeliveredWanted(t) = {}) =>
              ret[t].err.kind = "timeout"

\* start waited while SystemExited was delivered to its callback, and timed out
C1_Witness ==
    /\ pc[Main] = "done" /\ op[Main] = "start"
    /\ ret[Main].err.kind = "timeout"
    /\ \E i \in DOMAIN notified[Main] :
          /\ notified[Main][i].cb
          /\ notified[Main][i].at = "wait"
          /\ notified[Main][i].notType = hcsNotificationSystemExited

\* C2 as stated: every lifecycle call, create included, is issued only after
\* its completion callback was registered.
C2_AllPreRegister ==
    \A t \in Threads : \A i \in LifecycleCalls(t) :
        \E j \in RegisteredOk(t) : j < i

\* C2 amended: start, shutdown and terminate are issued only after their
\* callback was registered; create is issued with no callback registered and
\* registers only after the create call returned pending.
C2_PreRegisterExceptCreate ==
    \A t \in Threads :
        /\ \A i \in LifecycleCalls(t) :
              IF calls[t][i].api = "HcsCreateComputeSystem"
              THEN \A j \in DOMAIN calls[t] :
                      calls[t][j].api = "HcsRegisterComputeSystemCallback" =>
                          i < j /\ calls[t][i].hr = errOperationPending
              ELSE \E j \in RegisteredOk(t) : j < i
        /\ pc[t] = "incall" => (reg[t] <=> op[t] # "create")

\* the start call is inside the service with the callback registered, or the
\* create call is inside the service with none
C2_Witness ==
    /\ pc[Main] = "incall"
    /\ \/ op[Main] = "shutdown" /\ reg[Main]
       \/ op[Main] = "create" /\ ~reg[Main]

\* C3: start, shutdown, terminate: when the call returned pending and a
\* notification of the wanted kind fired once the call was issued, the
\* operation does not end in a timeout and returns the outcome of the first
\* such notification fired since its registration.
C3_NoLostNotification ==
    \A t \in Threads :
        LET fired == {i \in DOMAIN notified[t] :
                         /\ notified[t][i].notType = WantOf(op[t])
                         /\ notified[t][i].at \in {"convert", "call", "incall", "wait"}}
            after == {i \in fired : notified[t][i].at \in {"incall", "wait"}}
        IN  (/\ pc[t] = "done"
             /\ op[t] \in {"start", "shutdown", "terminate"}
             /\ hr[t] = errOperationPending
             /\ after # {}) =>
                /\ ret[t].err.kind # "timeout"
                /\ ret[t].err = CallbackErr(notified[t][Least(fired)].status)

\* the completion fired while the start call had not yet returned
C3_Witness ==
    /\ pc[Main] = "done" /\ op[Main] = "start"
    /\ hr[Main] = errOperationPending
    /\ ret[Main].err = Nil
    /\ \E i \in DOMAIN notified[Main] :
          /\ notified[Main][i].at = "incall"
          /\ notified[Main][i].notType = hcsNotificationSystemStartCompleted

\* C4: the tri-state outcome: success returns nil without waiting, a non-zero
\* status other than pending returns that failure without waiting, pending is
\* never returned as the error and ends in nil exactly when the first wanted
\* notification delivered before the ceiling is non-negative, in that
\* notification's error when it is negative, in the timeout when none came.
C4_TriStateOutcome ==
    \A t \in Threads :
        /\ pc[t] = "wait" => hr[t] = errOperationPending
        /\ (pc[t] = "done" /\ hr[t] = S_OK) =>
              ret[t].err = Nil /\ RegisterFailed(t) = {}
        /\ (pc[t] = "done" /\ hr[t] \notin {S_OK, errOperationPending, InFlight}) =>
              /\ ret[t].err.kind = "hresult"
              /\ ret[t].err.code = hr[t]
              /\ ret[t].err.ctx = <<>>
        /\ (pc[t] = "done" /\ hr[t] = errOperationPending) =>
              /\ ret[t].err.code # errOperationPending
              /\ IF RegisteredOk(t) = {} THEN ret[t].err # Nil
                 ELSE IF DeliveredWanted(t) = {} THEN ret[t].err.kind = "timeout"
                 ELSE LET s == notified[t][Least(DeliveredWanted(t))].status
                      IN  IF Negative(s)
                          THEN ret[t].err.kind = "hresult" /\ ret[t].err.code = s
                          ELSE ret[t].err = Nil

\* pending, then a completion with the positive status S_FALSE: success
C4_Witness ==
    /\ pc[Main] = "done" /\ hr[Main] = errOperationPending
    /\ ret[Main].err = Nil
    /\ DeliveredWanted(Main) # {}
    /\ notified[Main][Least(DeliveredWanted(Main))].status = S_FALSE

\* C5: create: pending followed by a failed wait closes the handle exactly
\* once and returns handle 0 with the wrapped error; an immediate failure
\* closes nothing and returns handle 0; a non-zero handle comes back only
\* from a create that completed successfully.
C5_CreateFailureClosesOnce ==
    \A t \in Threads :
        (pc[t] = "done" /\ op[t] = "create") =>
            /\ (hr[t] = errOperationPending /\ ret[t].err # Nil) =>
                  /\ closes = 1
                  /\ ret[t].system = 0
                  /\ ret[t].err.ctx = <<"wait for create">>
            /\ hr[t] \notin {S_OK, errOperationPending} =>
                  /\ closes = 0
                  /\ ret[t].system = 0
                  /\ ret[t].err # Nil
            /\ ret[t].system # 0 =>
                  /\ closes = 0
                  /\ ret[t].err = Nil
                  /\ \/ hr[t] = S_OK
                     \/ /\ hr[t] = errOperationPending
                        /\ DeliveredWanted(t) # {}
                        /\ ~Negative(notified[t][Least(DeliveredWanted(t))].status)

\* create returned pending and its wait timed out
C5_Witness ==
    /\ pc[Main] = "done" /\ op[Main] = "create"
    /\ hr[Main] = errOperationPending
    /\ ret[Main].err.kind = "timeout"
    /\ closes = 1
    /\ CountCalls(Main, "HcsCloseComputeSystem") = 1

\* C6: start, shutdown, terminate: when registering the callback fails, the
\* lifecycle call is never issued and the registration error is returned.
C6_RegisterFailureStops ==
    \A t \in Threads :
        (op[t] \in {"start", "shutdown", "terminate"} /\ RegisterFailed(t) # {}) =>
            /\ LifecycleCalls(t) = {}
            /\ pc[t] = "done"
            /\ ret[t].err.kind = "hresult"
            /\ ret[t].err.detail = "HcsRegisterComputeSystemCallback"
            /\ ret[t].err.ctx = <<"register " \o op[t] \o " callback">>

\* shutdown failed to register and returned without calling the service
C6_Witness ==
    /\ pc[Main] = "done" /\ op[Main] = "shutdown"
    /\ RegisterFailed(Main) # {}
    /\ ret[Main].err # Nil

\* C7: every callback an operation registered is unregistered exactly once
\* before the operation returns, whatever the exit path.
C7_UnregisteredExactlyOnce ==
    \A t \in Threads :
        LET unregs == CountCalls(t, "HcsUnregisterComputeSystemCallback") IN
        /\ unregs <= Cardinality(RegisteredOk(t))
        /\ reg[t] <=> unregs < Cardinality(RegisteredOk(t))
        /\ pc[t] = "done" => ~reg[t] /\ unregs = Cardinality(RegisteredOk(t))

\* start returned the option-conversion error after registering once and
\* unregistering once
C7_Witness ==
    /\ pc[Main] = "done" /\ op[Main] = "start"
    /\ ret[Main].err = EINVAL
    /\ Cardinality(RegisteredOk(Main)) = 1
    /\ CountCalls(Main, "HcsUnregisterComputeSystemCallback") = 1

\* C8: the hand-off is a one-slot non-blocking send: the channel never holds
\* more than one outcome, before the Wait ends it holds the outcome of the
\* first wanted notification, a Wait that returns an outcome returns that
\* one, and later notifications change nothing that was returned.
C8_SingleSlotFirstWins ==
    \A t \in Threads :
        LET first == notified[t][Least(DeliveredWanted(t))].status IN
        /\ Len(ch[t]) <= 1
        /\ (pc[t] \in UntilWaitEnds /\ reg[t] /\ DeliveredWanted(t) # {}) =>
              ch[t] = <<CallbackErr(first)>>
        /\ (PastWait(t) /\ Waited(t) /\ DeliveredWanted(t) # {}) =>
              ret[t].err.kind # "timeout"
        /\ (pc[t] = "unregister" /\ Waited(t) /\ DeliveredWanted(t) # {}) =>
              ret[t].err = CallbackErr(first)

\* two wanted notifications with different outcomes arrived before the Wait
\* ended; the outcome of the first one was returned
C8_Witness ==
    /\ pc[Main] = "unregister"
    /\ Cardinality(DeliveredWanted(Main)) = 2
    /\ notified[Main][1].status = E_FAIL
    /\ notified[Main][2].status = S_OK
    /\ ret[Main].err.kind = "hresult"

\* C9: one call of VM.Shutdown: a failed graceful shutdown is followed by
\* exactly one terminate and is not what the caller gets back; a successful
\* one by none; the handle is closed exactly once on every path.
C9_ShutdownFallbackClosesOnce ==
    \A t \in Threads :
        LET terminates == Cardinality({i \in DOMAIN entered[t] :
                                          entered[t][i] = "terminate"})
        IN  /\ closes <= 1
            /\ terminates <= 1
            /\ vpc[t] = "sd_done" =>
                  /\ closes = 1
                  /\ Len(entered[t]) >= 1 /\ entered[t][1] = "shutdown"
                  /\ IF shutdownErr[t] # Nil
                     THEN /\ terminates = 1
                          /\ entered[t] = <<"shutdown", "terminate">>
                          /\ vret[t] # shutdownErr[t]
                          /\ vret[t] # Nil =>
                                vret[t].ctx[1] \in {"terminate", "close"}
                     ELSE /\ terminates = 0
                          /\ vret[t] # Nil => vret[t].ctx[1] = "close"

\* the graceful shutdown timed out, terminate then succeeded, the handle was
\* closed and Shutdown returned nil
C9_Witness ==
    /\ vpc[Main] = "sd_done"
    /\ shutdownErr[Main].kind = "timeout"
    /\ entered[Main] = <<"shutdown", "terminate">>
    /\ closes = 1
    /\ vret[Main] = Nil

\* C10: over an interactive run the handle is closed at most once, whatever
\* the interleaving of the signal goroutine and the main path.
C10_HandleClosedAtMostOnce == closes <= 1

\* ------------------------------ line-ending transform (process.go stdinToPipe)

MaxInputLen == 4

CR == 13
LF == 10

\* the transform with the CR case forwarding the byte as it came
TransformByteKeepsCR(b, p) ==
    CASE b = CR -> [out |-> <<CR>>, prevCR |-> TRUE]
      [] b = LF /\ p -> [out |-> <<>>, prevCR |-> FALSE]
      [] OTHER -> [out |-> <<b>>, prevCR |-> FALSE]

\* the transform without the case that drops the LF of a CR LF pair
TransformByteKeepsLF(b, p) ==
    CASE b = CR -> [out |-> <<LF>>, prevCR |-> TRUE]
      [] OTHER -> [out |-> <<b>>, prevCR |-> FALSE]

\* the switch on one input byte b with prevCR = p: what is appended to
\* outBuf, and the new prevCR
TransformByte(b, p) ==
    CASE b = CR -> [out |-> <<LF>>, prevCR |-> TRUE]
      [] b = LF /\ p -> [out |-> <<>>, prevCR |-> FALSE]
      [] OTHER -> [out |-> <<b>>, prevCR |-> FALSE]

\* the loop over inBuf[:n]: outBuf and prevCR after the i-th byte onwards
RECURSIVE TransformFrom(_, _, _)
TransformFrom(chunk, i, p) ==
    IF i > Len(chunk) THEN [out |-> <<>>, prevCR |-> p]
    ELSE LET one == TransformByte(chunk[i], p)
             rest == TransformFrom(chunk, i + 1, one.prevCR)
         IN [out |-> one.out \o rest.out, prevCR |-> rest.prevCR]

TransformChunk(chunk, p) == TransformFrom(chunk, 1, p)

SeqsUpTo(S, n) == UNION {[1..k -> S] : k \in 0..n}

\* host input: every short mix of CR, LF, 'l', 's', and "abc"
HostInputs == SeqsUpTo({CR, LF, 108, 115}, MaxInputLen) \cup {<<97, 98, 99>>}

InitTransform ==
    /\ InitLifecycle
    /\ vpc = [t \in Threads |-> "off"]
    /\ hostIn \in HostInputs
    /\ consumed = <<>>
    /\ piped = <<>>
    /\ prevCR = FALSE
    /\ pass = 1
    /\ firstOut = <<>>
    /\ OpenIdle
    /\ CommandIdle
    /\ SessionIdle
    /\ ProcessIdle
    /\ OpsIdle

\* one read of n bytes of input, transformed and forwarded
TransformRead(n) ==
    /\ pass \in {1, 2}
    /\ n \in 1..Len(hostIn)
    /\ LET chunk == SubSeq(hostIn, 1, n)
           r == TransformChunk(chunk, prevCR)
       IN /\ piped' = piped \o r.out
          /\ prevCR' = r.prevCR
          /\ consumed' = IF pass = 1 THEN consumed \o chunk ELSE consumed
    /\ hostIn' = SubSeq(hostIn, n + 1, Len(hostIn))
    /\ UNCHANGED <<pass, firstOut>>
    /\ UNCHANGED exceptTransform

\* the output of the first pass becomes the input of a second one, which
\* starts with prevCR = false
TransformAgain ==
    /\ pass = 1
    /\ hostIn = <<>>
    /\ firstOut' = piped
    /\ hostIn' = piped
    /\ piped' = <<>>
    /\ prevCR' = FALSE
    /\ pass' = 2
    /\ UNCHANGED consumed
    /\ UNCHANGED exceptTransform

NextTransform ==
    \/ \E n \in 1..(MaxInputLen + 1) : TransformRead(n)
    \/ TransformAgain

SpecTransform == InitTransform /\ [][NextTransform]_vars

\* the line-ending policy, byte position by byte position: a CR becomes
\* LF, an LF right after a CR disappears, every other byte stays
RECURSIVE LineEndings(_, _)
LineEndings(s, i) ==
    IF i > Len(s) THEN <<>>
    ELSE (IF s[i] = CR THEN <<LF>>
          ELSE IF s[i] = LF /\ i > 1 /\ s[i - 1] = CR THEN <<>>
          ELSE <<s[i]>>) \o LineEndings(s, i + 1)

\* C12: whatever the split into reads, the bytes forwarded for the input
\* read so far are that input with every CR turned into LF and every LF that
\* directly follows a CR removed; "ls\r\n" and "ls\r" give "ls\n", "abc"
\* gives "abc"
C12_LineEndingTransform ==
    pass = 1 =>
        /\ piped = LineEndings(consumed, 1)
        /\ consumed = <<108, 115, CR, LF>> => piped = <<108, 115, LF>>
        /\ consumed = <<108, 115, CR>> => piped = <<108, 115, LF>>
        /\ consumed = <<97, 98, 99>> => piped = <<97, 98, 99>>

\* "ls\r" was read in one read and "\n" in the next
C12_Witness ==
    /\ pass = 1
    /\ consumed = <<108, 115, CR>>
    /\ hostIn = <<LF>>
    /\ prevCR
    /\ piped = <<108, 115, LF>>

\* C13: transforming the output of the transform again, from prevCR =
\* false, gives that output back
C13_TransformIdempotent ==
    (pass = 2 /\ hostIn = <<>>) => piped = firstOut

C13_Witness ==
    /\ pass = 2
    /\ hostIn = <<>>
    /\ consumed = <<108, 115, CR, LF>>
    /\ piped = <<108, 115, LF>>

\* ------------------------- open with retry (process.go open*PipeWithRetry)

MaxTimeoutTicks == 3

PipeHandle == 7
InvalidHandle == -1
NilFile == 0

\* syscall.Errno(n)
Errno(n) == [kind |-> "errno", code |-> Word(0, n), detail |-> "", ctx |-> <<>>]

ERROR_FILE_NOT_FOUND == Errno(2)
ERROR_ACCESS_DENIED == Errno(5)
ERROR_PIPE_BUSY == Errno(231)

\* fmt.Errorf("timed out waiting for pipe %s", name)
PipeTimeoutError ==
    [kind |-> "pipe-timeout", code |-> S_OK, detail |-> "", ctx |-> <<>>]

\* the handle an open returns, and what is returned without one
OpenedHandle(kind) == IF kind = "overlapped" THEN PipeHandle ELSE PipeHandle + 1
NoHandle(kind) == IF kind = "overlapped" THEN InvalidHandle ELSE NilFile

\* what one open attempt can return: the name's conversion error, or what
\* CreateFileW answers (nil for an opened pipe)
AttemptResults(nameOk) ==
    IF nameOk THEN {Nil, ERROR_FILE_NOT_FOUND, ERROR_ACCESS_DENIED, ERROR_PIPE_BUSY}
    ELSE {EINVAL}

\* a retry loop that gives up on an error that cannot go away
AfterFailedAttemptFatal(err) ==
    IF err \in {EINVAL, ERROR_ACCESS_DENIED} THEN "fail" ELSE "sleep"

\* after a failed attempt the loop sleeps and tries again, whatever the error
AfterFailedAttempt(err) == "sleep"

\* time.Now().Before(deadline)
BeforeDeadline(now, deadline) == now < deadline

InitOpen ==
    /\ InitLifecycle
    /\ vpc = [t \in Threads |-> "off"]
    /\ TransformIdle
    /\ CommandIdle
    /\ oKind \in {"overlapped", "sync"}
    /\ oNameOk \in BOOLEAN
    /\ oDeadline \in 0..MaxTimeoutTicks
    /\ oNow = 0
    /\ oPc = "check"
    /\ oLast = Nil
    /\ oAttempts = 0
    /\ oOpened = FALSE
    /\ oRet = [handle |-> 0, err |-> Nil]
    /\ SessionIdle
    /\ ProcessIdle
    /\ OpsIdle

\* the loop condition: another attempt, or the timeout error
OpenCheck ==
    /\ oPc = "check"
    /\ IF BeforeDeadline(oNow, oDeadline)
       THEN /\ oPc' = "attempt"
            /\ UNCHANGED oRet
       ELSE /\ oPc' = "returned"
            /\ oRet' = [handle |-> NoHandle(oKind), err |-> PipeTimeoutError]
    /\ UNCHANGED <<oKind, oNameOk, oDeadline, oNow, oLast, oAttempts, oOpened>>
    /\ UNCHANGED exceptOpen

\* one openOverlappedPipe / openSyncPipe answering res after d ticks
OpenAttempt(res, d) ==
    /\ oPc = "attempt"
    /\ res \in AttemptResults(oNameOk)
    /\ oNow' = oNow + d
    /\ oAttempts' = oAttempts + 1
    /\ IF res = Nil
       THEN /\ oPc' = "returned"
            /\ oRet' = [handle |-> OpenedHandle(oKind), err |-> Nil]
            /\ oOpened' = TRUE
            /\ UNCHANGED oLast
       ELSE /\ oLast' = res
            /\ UNCHANGED oOpened
            /\ IF AfterFailedAttempt(res) = "sleep"
               THEN /\ oPc' = "sleep"
                    /\ UNCHANGED oRet
               ELSE /\ oPc' = "returned"
                    /\ oRet' = [handle |-> NoHandle(oKind), err |-> res]
    /\ UNCHANGED <<oKind, oNameOk, oDeadline>>
    /\ UNCHANGED exceptOpen

\* time.Sleep(100 * time.Millisecond): at least one tick passes
OpenSleep(d) ==
    /\ oPc = "sleep"
    /\ oNow' = oNow + d
    /\ oPc' = "check"
    /\ UNCHANGED <<oKind, oNameOk, oDeadline, oLast, oAttempts, oOpened, oRet>>
    /\ UNCHANGED exceptOpen

NextOpen ==
    \/ OpenCheck
    \/ \E res \in AttemptResults(TRUE) \cup AttemptResults(FALSE), d \in {0, 1} :
          OpenAttempt(res, d)
    \/ \E d \in {1, 2} : OpenSleep(d)

SpecOpen == InitOpen /\ [][NextOpen]_vars

\* C16: an attempt that opens the pipe makes the call return that handle
\* with no error; a call that returns without one returns the timeout
\* error, never an attempt's error, and only at or after the deadline
C16_OpenWithRetry ==
    /\ oOpened =>
          /\ oPc = "returned"
          /\ oRet = [handle |-> OpenedHandle(oKind), err |-> Nil]
    /\ (oPc = "returned" /\ ~oOpened) =>
          /\ oRet = [handle |-> NoHandle(oKind), err |-> PipeTimeoutError]
          /\ oNow >= oDeadline

\* the pipe was opened by a later attempt, after one that failed
C16_Witness ==
    /\ oOpened
    /\ oAttempts >= 2
    /\ oLast = ERROR_ACCESS_DENIED
    /\ oPc = "returned"
    /\ oNow < oDeadline

\* ------------------------------------------- RunCommand (process.go)

SPACE == 32
HASH == 35
DOLLAR == 36
QUOTE == 34

\* io.EOF
EOF == [kind |-> "eof", code |-> S_OK, detail |-> "", ctx |-> <<>>]

\* a write on a pipe whose other end is closed
ERROR_NO_DATA == Errno(232)

\* "root@host:/# "
RootPrompt == <<114, 111, 111, 116, 64, 104, 111, 115, 116, 58, 47, HASH, SPACE>>
\* "no prompt here"
NoPromptHere == <<110, 111, SPACE, 112, 114, 111, 109, 112, 116, SPACE, 104, 101, 114, 101>>
\* "/ # "
SlashPrompt == <<47, SPACE, HASH, SPACE>>
\* "# $": a prompt character first, and a dollar after a space
HashFirst == <<HASH, SPACE, DOLLAR>>
\* "hi"
Hi == <<104, 105>>
\* "echo"
Echo == <<101, 99, 104, 111>>

\* containsSpace(s)
containsSpace(a) == \E i \in 1..Len(a) : a[i] = SPACE

\* shellJoin(args): args from the i-th on, joined by spaces, an arg holding a
\* space in double quotes
RECURSIVE shellJoinFrom(_, _)
shellJoinFrom(args, i) ==
    IF i > Len(args) THEN <<>>
    ELSE (IF i > 1 THEN <<SPACE>> ELSE <<>>)
         \o (IF containsSpace(args[i]) THEN <<QUOTE>> \o args[i] \o <<QUOTE>>
             ELSE args[i])
         \o shellJoinFrom(args, i + 1)

shellJoin(args) == shellJoinFrom(args, 1)

PromptSeenNoSpace(b, before) == b = HASH \/ b = DOLLAR
\* the scanners' test on the byte just read and the one read before it
PromptSeen(b, before) == (b = HASH \/ b = DOLLAR) /\ before = SPACE

\* a guest that prints text and then stays silent or hangs up, and a shell
\* that prints its prompt, and after a command line "hi\n" and its prompt
StreamGuest(text, hangsUp) == [first |-> text, reply |-> <<>>, closes |-> hangsUp]
ShellGuest(prompt) == [first |-> prompt, reply |-> Hi \o <<LF>> \o prompt, closes |-> FALSE]

Guests ==
    {StreamGuest(t, c) : t \in {RootPrompt, NoPromptHere, SlashPrompt}, c \in BOOLEAN}
    \cup {ShellGuest(p) : p \in {SlashPrompt, RootPrompt, HashFirst}}

InitCommand ==
    /\ InitLifecycle
    /\ vpc = [t \in Threads |-> "off"]
    /\ TransformIdle
    /\ OpenIdle
    /\ guest \in Guests
    /\ gOut = guest.first
    /\ gGot = <<>>
    /\ gClosed = FALSE
    /\ toHost = <<>>
    /\ toGuest = <<>>
    /\ rcPc = "open"
    /\ rcArgs = <<Echo, Hi>>
    /\ rcOpen = FALSE
    /\ last = 0
    /\ stdout = <<>>
    /\ rcRet = Nil
    /\ SessionIdle
    /\ ProcessIdle
    /\ OpsIdle

\* the guest prints its next byte
GuestEmit ==
    /\ gOut # <<>>
    /\ ~gClosed
    /\ toHost' = Append(toHost, Head(gOut))
    /\ gOut' = Tail(gOut)
    /\ UNCHANGED <<guest, gGot, gClosed, toGuest, rcPc, rcArgs, rcOpen, last, stdout, rcRet>>
    /\ UNCHANGED exceptCommand

\* the guest, at its prompt, reads the command line and starts to answer
GuestReceive ==
    /\ gOut = <<>>
    /\ ~gClosed
    /\ toGuest # <<>>
    /\ gGot' = gGot \o toGuest
    /\ toGuest' = <<>>
    /\ gOut' = IF toGuest[Len(toGuest)] = LF THEN guest.reply ELSE <<>>
    /\ UNCHANGED <<guest, gClosed, toHost, rcPc, rcArgs, rcOpen, last, stdout, rcRet>>
    /\ UNCHANGED exceptCommand

\* the guest hangs up after its last byte
GuestClose ==
    /\ guest.closes
    /\ gOut = <<>>
    /\ ~gClosed
    /\ gClosed' = TRUE
    /\ UNCHANGED <<guest, gOut, gGot, toHost, toGuest, rcPc, rcArgs, rcOpen, last, stdout, rcRet>>
    /\ UNCHANGED exceptCommand

CommandOpenSkipsPrompt(err) ==
    /\ rcPc = "open"
    /\ IF err = Nil
       THEN /\ rcPc' = "write"
            /\ rcOpen' = TRUE
            /\ UNCHANGED rcRet
       ELSE /\ rcPc' = "returned"
            /\ rcRet' = Wrap("open console pipe", err)
            /\ UNCHANGED rcOpen
    /\ UNCHANGED <<guest, gOut, gGot, gClosed, toHost, toGuest, rcArgs, last, stdout>>
    /\ UNCHANGED exceptCommand

\* openSyncPipeWithRetry(pipeName, 30*time.Second) returns err
CommandOpen(err) ==
    /\ rcPc = "open"
    /\ IF err = Nil
       THEN /\ rcPc' = "waitPrompt"
            /\ rcOpen' = TRUE
            /\ UNCHANGED rcRet
       ELSE /\ rcPc' = "returned"
            /\ rcRet' = Wrap("open console pipe", err)
            /\ UNCHANGED rcOpen
    /\ UNCHANGED <<guest, gOut, gGot, gClosed, toHost, toGuest, rcArgs, last, stdout>>
    /\ UNCHANGED exceptCommand

\* one r.Read(buf) of waitForPrompt / collectUntilPrompt that gets a byte
ScanRead ==
    /\ rcPc \in {"waitPrompt", "collect"}
    /\ toHost # <<>>
    /\ LET b == Head(toHost)
       IN /\ toHost' = Tail(toHost)
          /\ stdout' = Append(stdout, b)
          /\ IF PromptSeen(b, last)
             THEN /\ last' = 0
                  /\ IF rcPc = "waitPrompt"
                     THEN /\ rcPc' = "write"
                          /\ UNCHANGED <<rcRet, rcOpen>>
                     ELSE /\ rcPc' = "returned"
                          /\ rcRet' = Nil
                          /\ rcOpen' = FALSE
             ELSE /\ last' = b
                  /\ UNCHANGED <<rcPc, rcRet, rcOpen>>
    /\ UNCHANGED <<guest, gOut, gGot, gClosed, toGuest, rcArgs>>
    /\ UNCHANGED exceptCommand

\* one r.Read(buf) that fails: the pipe is empty and the guest has hung up
ScanReadError ==
    /\ rcPc \in {"waitPrompt", "collect"}
    /\ toHost = <<>>
    /\ gClosed
    /\ rcPc' = "returned"
    /\ rcRet' = IF rcPc = "waitPrompt" THEN Wrap("wait for prompt", EOF) ELSE EOF
    /\ rcOpen' = FALSE
    /\ UNCHANGED <<guest, gOut, gGot, gClosed, toHost, toGuest, rcArgs, last, stdout>>
    /\ UNCHANGED exceptCommand

\* fmt.Fprint(f, shellJoin(args) + "\n")
CommandWrite ==
    /\ rcPc = "write"
    /\ IF gClosed
       THEN /\ rcPc' = "returned"
            /\ rcRet' = Wrap("write command", ERROR_NO_DATA)
            /\ rcOpen' = FALSE
            /\ UNCHANGED toGuest
       ELSE /\ rcPc' = "collect"
            /\ toGuest' = toGuest \o shellJoin(rcArgs) \o <<LF>>
            /\ UNCHANGED <<rcRet, rcOpen>>
    /\ UNCHANGED <<guest, gOut, gGot, gClosed, toHost, rcArgs, last, stdout>>
    /\ UNCHANGED exceptCommand

NextCommand ==
    \/ GuestEmit
    \/ GuestReceive
    \/ GuestClose
    \/ \E err \in {Nil, PipeTimeoutError} : CommandOpen(err)
    \/ ScanRead
    \/ ScanReadError
    \/ CommandWrite

SpecCommand == InitCommand /\ [][NextCommand]_vars

\* the guest and RunCommand keep running while they can
SpecCommandFair == SpecCommand /\ WF_vars(NextCommand)

\* sub occurs in s
Contains(s, sub) ==
    \E i \in 0..(Len(s) - Len(sub)) : SubSeq(s, i + 1, i + Len(sub)) = sub

\* C14: once the bytes of "root@host:/# " up to its prompt character have
\* been read, waitForPrompt has returned nil; on "no prompt here" it never
\* returns nil
C14_PromptScanner ==
    /\ (guest.first = RootPrompt /\ Len(stdout) >= Len(RootPrompt) - 1) =>
          rcPc # "waitPrompt"
    /\ guest.first = NoPromptHere =>
          /\ rcPc \notin {"write", "collect"}
          /\ ~(rcPc = "returned" /\ rcRet = Nil)

\* C15: against a shell that prints its prompt, answers the command line
\* with "hi\n" and prints its prompt again, a RunCommand that has opened the
\* console eventually returns nil with "hi" among the forwarded bytes
C15_RunCommandReturnsHi ==
    (guest.reply # <<>> /\ rcPc = "waitPrompt")
        ~> (rcPc = "returned" /\ rcRet = Nil /\ Contains(stdout, Hi))

\* C17: RunCommand never sits in a wait that nothing can end: while it has
\* not returned, some step of it or of the guest is possible
C17_EveryWaitHasCeiling ==
    rcPc \in {"waitPrompt", "write", "collect"} => ENABLED NextCommand

\* ------------------------------------ InteractiveShell (process.go, main.go)

enableProcessedInput == 1
enableLineInput == 2
enableEchoInput == 4
enableVirtualTermInput == 512

ERROR_INVALID_HANDLE == Errno(6)
ERROR_NOT_ENOUGH_MEMORY == Errno(8)
ERROR_BROKEN_PIPE == Errno(109)
ERROR_PIPE_NOT_CONNECTED == Errno(233)
ERROR_IO_INCOMPLETE == Errno(996)

procVars == <<vpc, alive, closes>>
hostVars == <<hostIn, consumed, piped, prevCR, outBuf, readErr, readVia, readN>>
guestVars == <<gOut, toHost, stdout, rbuf>>
shellVars == <<isPc, isRet, hOpen>>
flowVars == <<fpc, fres, fcause, done, handed>>
ioVars == <<io, ioErr, ev>>
modeVars == <<mode, oldMode, restoreArmed>>

Other(f) == IF f = "reader" THEN "writer" ELSE "reader"

\* the flags openOverlappedPipe gives CreateFileW, and those of a
\* synchronous open
OpenFlagsSync == {"fileAttributeNormal"}
OpenFlags == {"fileAttributeNormal", "fileFlagOverlapped"}

\* an operation on the handle can start: on a handle opened without
\* fileFlagOverlapped it has to wait for the operation in flight
CanIssue(f) == "fileFlagOverlapped" \in OpenFlags \/ io[Other(f)] # "pending"

\* both flows handing the one event to their operations
EventOfShared(f) == "reader"

\* the event a flow's OVERLAPPED carries and the flow waits on: the one it
\* made with createEvent
EventOf(f) == f

\* a pipe-close test that knows broken pipe only
isPipeCloseBrokenOnly(err) ==
    \/ err = EOF
    \/ err.kind = "errno" /\ err.ctx = <<>> /\ err.code = Word(0, 109)

\* isPipeClose(err): err == io.EOF, or err is itself a syscall.Errno (the
\* type assertion looks into no wrapping) of value 109 or 233
isPipeClose(err) ==
    \/ err = EOF
    \/ /\ err.kind = "errno"
       /\ err.ctx = <<>>
       /\ (err.code = Word(0, 109) \/ err.code = Word(0, 233))

\* what a flow returns for the error of a read or write on the pipe
PipeResult(err) == IF isPipeClose(err) THEN Nil ELSE err

\* result channels made without a buffer
CanSendDoneUnbuffered(len, receiving) == receiving

\* readerDone / writerDone are made with room for one result
DoneChanCap == 1
CanSendDone(len, receiving) == len < DoneChanCap

RawModeClearsProcessed(old) ==
    (old \ {enableProcessedInput, enableLineInput, enableEchoInput})
        \cup {enableVirtualTermInput}
\* newMode := (old &^ (enableLineInput | enableEchoInput)) | enableVirtualTermInput
RawMode(old) == (old \ {enableLineInput, enableEchoInput}) \cup {enableVirtualTermInput}

\* the console mode of the host terminal before the session: line input
\* with echo
InitialModes == {{enableProcessedInput, enableLineInput, enableEchoInput}}

\* errors the pipe reports to a read or a write
PipeErrors == {EOF, ERROR_BROKEN_PIPE, ERROR_PIPE_NOT_CONNECTED, ERROR_ACCESS_DENIED}

\* what the user types during the session
SessionInputs == {<<>>, <<108>>, <<CR, LF>>}

\* vmrunner attach <vm-id>: cmdAttach calls vm.Attach, which opens the VM
\* by id, closes the handle and calls InteractiveShell; no other goroutine
\* is started
InitSession ==
    /\ InitLifecycle
    /\ vpc = [t \in Threads |-> IF t = "main" THEN "at_open" ELSE "off"]
    /\ hostIn \in SessionInputs
    /\ consumed = <<>> /\ piped = <<>> /\ prevCR = FALSE
    /\ pass = 0 /\ firstOut = <<>>
    /\ OpenIdle
    /\ guest = StreamGuest(Hi, FALSE)
    /\ gOut = guest.first
    /\ gGot = <<>> /\ gClosed = FALSE /\ toHost = <<>> /\ toGuest = <<>>
    /\ rcPc = "off" /\ rcArgs = <<>> /\ rcOpen = FALSE /\ last = 0
    /\ stdout = <<>> /\ rcRet = Nil
    /\ isPc = "open"
    /\ isRet = Nil
    /\ hOpen = FALSE
    /\ fpc = [f \in Flows |-> "off"]
    /\ fres = [f \in Flows |-> Nil]
    /\ fcause = [f \in Flows |-> Nil]
    /\ done = [f \in Flows |-> <<>>]
    /\ handed = <<>>
    /\ io = [f \in Flows |-> "none"]
    /\ ioErr = [f \in Flows |-> Nil]
    /\ ev = [f \in Flows |-> FALSE]
    /\ rbuf = <<>>
    /\ mode \in InitialModes
    /\ oldMode = {}
    /\ restoreArmed = FALSE
    /\ isConsole \in BOOLEAN
    /\ hostEnd \in (IF isConsole THEN {"idle", "error"} ELSE {"idle", "eof", "error"})
    /\ outBuf = <<>>
    /\ readErr = Nil
    /\ readVia = "none"
    /\ readN = 0
    /\ ProcessIdle
    /\ cmd = "attach"
    /\ cfgOk = TRUE
    /\ idOk \in BOOLEAN
    /\ trail = <<>>
    /\ held = "none"
    /\ hclosed = 0
    /\ vmRec = FALSE
    /\ opRet = Nil

\* openOverlappedPipeWithRetry returns err; on success the handle's close is
\* deferred, both goroutines are started and InteractiveShell selects
SessionOpen(err) ==
    /\ alive
    /\ vpc["main"] = "at_shell"
    /\ isPc = "open"
    /\ IF err = Nil
       THEN /\ hOpen' = TRUE
            /\ fpc' = [f \in Flows |-> "start"]
            /\ isPc' = "select"
            /\ UNCHANGED <<isRet, vpc>>
       ELSE /\ isRet' = Wrap("open console pipe", err)
            /\ isPc' = "returned"
            /\ vpc' = [vpc EXCEPT !["main"] = "at_done"]
            /\ UNCHANGED <<hOpen, fpc>>
    /\ UNCHANGED <<alive, closes, fres, fcause, done, handed>>
    /\ UNCHANGED <<hostVars, guestVars, ioVars, modeVars, sessionFrame>>

\* the select receives flow f's result: InteractiveShell returns it, the
\* deferred CloseHandle(h) runs
SessionSelect(f) ==
    /\ alive
    /\ isPc = "select"
    /\ done[f] # <<>>
    /\ isRet' = Head(done[f])
    /\ done' = [done EXCEPT ![f] = Tail(@)]
    /\ UNCHANGED handed
    /\ hOpen' = FALSE
    /\ isPc' = "returned"
    /\ vpc' = [vpc EXCEPT !["main"] = "at_done"]
    /\ UNCHANGED <<alive, closes, fpc, fres, fcause>>
    /\ UNCHANGED <<hostVars, guestVars, ioVars, modeVars, sessionFrame>>

\* InteractiveShell has returned: Attach returns its result, cmdAttach
\* returns or ends in log.Fatalf, and the process ends with the goroutine
\* that is left
AttachReturns ==
    /\ alive
    /\ vpc["main"] = "at_done"
    /\ opRet' = isRet
    /\ alive' = FALSE
    /\ vpc' = [vpc EXCEPT !["main"] = "returned"]
    /\ UNCHANGED <<pc, op, argsOk, reg, ch, hr, ret, calls, closes, notified,
                   entered, shutdownErr, vret>>
    /\ UNCHANGED <<cmd, cfgOk, idOk, trail, held, hclosed, vmRec>>
    /\ UNCHANGED opsFrame

\* a flow's function returns result because of the pipe error cause (Nil
\* for another reason): its deferred calls have run, its result is about to
\* be sent
FlowReturns(f, result, cause) ==
    /\ fres' = [fres EXCEPT ![f] = result]
    /\ fcause' = [fcause EXCEPT ![f] = cause]
    /\ fpc' = [fpc EXCEPT ![f] = "send"]
    /\ UNCHANGED <<done, handed>>

\* readerDone <- pipeToStdout(h) / writerDone <- stdinToPipe(h)
FlowSend(f) ==
    /\ alive
    /\ fpc[f] = "send"
    /\ CanSendDone(Len(done[f]), isPc = "select")
    /\ done' = [done EXCEPT ![f] = Append(@, fres[f])]
    /\ handed' = Append(handed, f)
    /\ fpc' = [fpc EXCEPT ![f] = "done"]
    /\ UNCHANGED <<fres, fcause>>
    /\ UNCHANGED <<procVars, hostVars, guestVars, shellVars, ioVars, modeVars, sessionFrame>>

\* the pending operation of flow f completes with err (Nil: it moved its
\* bytes) and signals the event its OVERLAPPED carries
IoComplete(f, err) ==
    /\ io[f] = "pending"
    /\ (f = "reader" /\ err = Nil) => toHost # <<>>
    /\ io' = [io EXCEPT ![f] = "complete"]
    /\ ioErr' = [ioErr EXCEPT ![f] = err]
    /\ ev' = [ev EXCEPT ![EventOf(f)] = TRUE]
    /\ IF f = "reader" /\ err = Nil
       THEN rbuf' = toHost /\ toHost' = <<>>
       ELSE UNCHANGED <<rbuf, toHost>>
    /\ UNCHANGED <<gOut, stdout>>
    /\ UNCHANGED <<procVars, hostVars, shellVars, flowVars, modeVars, sessionFrame>>

\* syscall.ERROR_IO_PENDING
ERROR_IO_PENDING == Errno(997)

\* what ReadFile / WriteFile on h answer at once: done (Nil), pending, or
\* an error; on a closed handle, the invalid-handle error
IssueResults == {Nil, ERROR_IO_PENDING} \cup PipeErrors \cup {ERROR_INVALID_HANDLE}

\* pipeToStdout: createEvent and its deferred CloseHandle(ev)
ReaderStart(evErr) ==
    /\ alive
    /\ fpc["reader"] = "start"
    /\ IF evErr = Nil
       THEN /\ fpc' = [fpc EXCEPT !["reader"] = "read"]
            /\ UNCHANGED <<fres, fcause, done, handed>>
       ELSE FlowReturns("reader", Wrap("createEvent", evErr), Nil)
    /\ UNCHANGED <<procVars, hostVars, guestVars, shellVars, ioVars, modeVars, sessionFrame>>

\* pipeToStdout: one ReadFile(h, buf, &n, &ol) answering res
ReaderRead(res) ==
    /\ alive
    /\ fpc["reader"] = "read"
    /\ CanIssue("reader")
    /\ IF hOpen THEN res # ERROR_INVALID_HANDLE ELSE res = ERROR_INVALID_HANDLE
    /\ res = Nil => toHost # <<>>
    /\ res = ERROR_IO_PENDING => toHost = <<>>
    /\ CASE res = Nil ->
              /\ stdout' = stdout \o toHost
              /\ toHost' = <<>>
              /\ UNCHANGED <<flowVars, ioVars>>
         [] res = ERROR_IO_PENDING ->
              /\ io' = [io EXCEPT !["reader"] = "pending"]
              /\ ev' = [ev EXCEPT ![EventOf("reader")] = FALSE]
              /\ fpc' = [fpc EXCEPT !["reader"] = "wait"]
              /\ UNCHANGED <<stdout, toHost, ioErr, fres, fcause, done, handed>>
         [] OTHER ->
              /\ FlowReturns("reader", PipeResult(res), res)
              /\ UNCHANGED <<stdout, toHost, ioVars>>
    /\ UNCHANGED <<gOut, rbuf>>
    /\ UNCHANGED <<procVars, hostVars, shellVars, modeVars, sessionFrame>>

\* pipeToStdout: WaitForSingleObject(ev, INFINITE) returns, then
\* GetOverlappedResult, the error test and os.Stdout.Write(buf[:n])
ReaderWait ==
    /\ alive
    /\ fpc["reader"] = "wait"
    /\ ev[EventOf("reader")]
    /\ ev' = [ev EXCEPT ![EventOf("reader")] = FALSE]
    /\ LET err == IF io["reader"] = "complete" THEN ioErr["reader"]
                  ELSE ERROR_IO_INCOMPLETE
       IN IF err = Nil
          THEN /\ stdout' = stdout \o rbuf
               /\ rbuf' = <<>>
               /\ fpc' = [fpc EXCEPT !["reader"] = "read"]
               /\ UNCHANGED <<fres, fcause, done, handed>>
          ELSE /\ FlowReturns("reader", PipeResult(err), err)
               /\ UNCHANGED <<stdout, rbuf>>
    /\ io' = [io EXCEPT !["reader"] = IF @ = "complete" THEN "none" ELSE @]
    /\ ioErr' = [ioErr EXCEPT !["reader"] = Nil]
    /\ UNCHANGED <<gOut, toHost>>
    /\ UNCHANGED <<procVars, hostVars, shellVars, modeVars, sessionFrame>>

\* stdinToPipe returns: restore() runs if it was deferred
WriterReturns(result, cause) ==
    /\ FlowReturns("writer", result, cause)
    /\ mode' = IF restoreArmed THEN oldMode ELSE mode
    /\ UNCHANGED <<oldMode, restoreArmed>>

ReadPathConsoleOnly(console) == "ReadFile"
\* stdinToPipe reads a console with ReadFile on its handle and anything else
\* with os.Stdin.Read
ReadPath(console) == IF console THEN "ReadFile" ELSE "os.Stdin.Read"

\* what a read of the host's input reports when the input has ended
HostReadError == IF hostEnd = "eof" THEN EOF ELSE ERROR_INVALID_HANDLE

ForwardedUnlessError(chunk, e) == IF e = Nil THEN chunk ELSE <<>>
\* stdinToPipe: if int(n) > 0 comes before the test of readErr, so the bytes
\* of a read are transformed whatever error the read returned with them
Forwarded(chunk, e) == chunk

\* stdinToPipe, end of an iteration: if readErr != nil, return nil for
\* io.EOF and readErr otherwise; else read again
WriterIterationEnds(e) ==
    IF e = Nil
    THEN /\ fpc' = [fpc EXCEPT !["writer"] = "read"]
         /\ UNCHANGED <<fres, fcause, done, handed, modeVars>>
    ELSE WriterReturns(IF e = EOF THEN Nil ELSE e, Nil)

\* stdinToPipe: createEvent, then prepareRawConsole and the deferred restore
WriterStart(evErr) ==
    /\ alive
    /\ fpc["writer"] = "start"
    /\ IF evErr # Nil
       THEN WriterReturns(Wrap("createEvent", evErr), Nil)
       ELSE /\ fpc' = [fpc EXCEPT !["writer"] = "read"]
            /\ UNCHANGED <<fres, fcause, done, handed>>
            /\ IF isConsole
               THEN /\ oldMode' = mode
                    /\ mode' = RawMode(mode)
                    /\ restoreArmed' = TRUE
               ELSE UNCHANGED modeVars
    /\ UNCHANGED <<procVars, hostVars, guestVars, shellVars, ioVars, sessionFrame>>

\* stdinToPipe: a read of the host's input returns n bytes, alone or (end)
\* together with the error of the input's end; the bytes are transformed
\* into outBuf, and with nothing to write the iteration ends
WriterRead(n, end) ==
    /\ alive
    /\ fpc["writer"] = "read"
    /\ n \in 1..Len(hostIn)
    /\ end => (n = Len(hostIn) /\ hostEnd # "idle")
    /\ LET e == IF end THEN HostReadError ELSE Nil
           chunk == SubSeq(hostIn, 1, n)
           r == TransformChunk(Forwarded(chunk, e), prevCR)
       IN /\ outBuf' = r.out
          /\ prevCR' = r.prevCR
          /\ consumed' = consumed \o chunk
          /\ readErr' = e
          /\ IF r.out # <<>>
             THEN /\ fpc' = [fpc EXCEPT !["writer"] = "write"]
                  /\ UNCHANGED <<fres, fcause, done, handed, modeVars>>
             ELSE WriterIterationEnds(e)
    /\ hostIn' = SubSeq(hostIn, n + 1, Len(hostIn))
    /\ readVia' = ReadPath(isConsole)
    /\ readN' = n
    /\ UNCHANGED piped
    /\ UNCHANGED <<procVars, guestVars, shellVars, ioVars, sessionFrame>>

\* stdinToPipe: a read of the host's input returns no bytes and an error
WriterReadEnd ==
    /\ alive
    /\ fpc["writer"] = "read"
    /\ hostIn = <<>>
    /\ hostEnd # "idle"
    /\ readErr' = HostReadError
    /\ readVia' = ReadPath(isConsole)
    /\ readN' = 0
    /\ WriterIterationEnds(HostReadError)
    /\ UNCHANGED <<hostIn, consumed, piped, prevCR, outBuf>>
    /\ UNCHANGED <<procVars, guestVars, shellVars, ioVars, sessionFrame>>

\* stdinToPipe: WriteFile(h, outBuf, &written, &ol) answering res
WriterWrite(res) ==
    /\ alive
    /\ fpc["writer"] = "write"
    /\ CanIssue("writer")
    /\ IF hOpen THEN res # ERROR_INVALID_HANDLE ELSE res = ERROR_INVALID_HANDLE
    /\ CASE res = Nil ->
              /\ piped' = piped \o outBuf
              /\ outBuf' = <<>>
              /\ WriterIterationEnds(readErr)
              /\ UNCHANGED ioVars
         [] res = ERROR_IO_PENDING ->
              /\ io' = [io EXCEPT !["writer"] = "pending"]
              /\ ev' = [ev EXCEPT ![EventOf("writer")] = FALSE]
              /\ fpc' = [fpc EXCEPT !["writer"] = "wait"]
              /\ UNCHANGED <<piped, outBuf, ioErr, fres, fcause, done, handed, modeVars>>
         [] OTHER ->
              /\ WriterReturns(PipeResult(res), res)
              /\ UNCHANGED <<piped, outBuf, ioVars>>
    /\ UNCHANGED <<hostIn, consumed, prevCR, readErr, readVia, readN>>
    /\ UNCHANGED <<procVars, guestVars, shellVars, sessionFrame>>

\* stdinToPipe: WaitForSingleObject(ev, INFINITE) returns, then
\* GetOverlappedResult and the error test
WriterWait ==
    /\ alive
    /\ fpc["writer"] = "wait"
    /\ ev[EventOf("writer")]
    /\ ev' = [ev EXCEPT ![EventOf("writer")] = FALSE]
    /\ LET err == IF io["writer"] = "complete" THEN ioErr["writer"]
                  ELSE ERROR_IO_INCOMPLETE
       IN IF err = Nil
          THEN /\ piped' = piped \o outBuf
               /\ outBuf' = <<>>
               /\ WriterIterationEnds(readErr)
          ELSE /\ WriterReturns(PipeResult(err), err)
               /\ UNCHANGED <<piped, outBuf>>
    /\ io' = [io EXCEPT !["writer"] = IF @ = "complete" THEN "none" ELSE @]
    /\ ioErr' = [ioErr EXCEPT !["writer"] = Nil]
    /\ UNCHANGED <<hostIn, consumed, prevCR, readErr, readVia, readN>>
    /\ UNCHANGED <<procVars, guestVars, shellVars, sessionFrame>>

\* C11: once the session has changed the host terminal's input mode, the
\* mode is back to the saved one whenever InteractiveShell has returned or
\* the process has ended
C11_ModeRestoredOnExit ==
    ((isPc = "returned" \/ ~alive) /\ restoreArmed) => mode = oldMode

\* C18, as worded: a flow that has its result can always hand it over, and
\* InteractiveShell returns the result of the first flow that handed its
\* result over (a flow's result has been received when its send is over and
\* its channel is empty again)
C18_FirstToFinishWins ==
    LET Received == {f \in Flows : fpc[f] = "done" /\ done[f] = <<>>}
    IN  /\ \A f \in Flows : (alive /\ fpc[f] = "send") => ENABLED FlowSend(f)
        /\ (isPc = "returned" /\ handed # <<>>) =>
              /\ Received = {handed[1]}
              /\ isRet = fres[handed[1]]

\* C18: a flow that has its result can always hand it over, also after
\* InteractiveShell has returned; once a flow has handed its result over the
\* select can take it without the other flow; InteractiveShell returns the
\* result of exactly one flow, one that has handed it over, and it is the
\* first such flow's unless both had handed over before the select ran; the
\* other flow's result is never received: it stays in its channel
C18_FirstFlowWins ==
    LET Received == {f \in Flows : fpc[f] = "done" /\ done[f] = <<>>}
    IN  /\ \A f \in Flows : (alive /\ fpc[f] = "send") => ENABLED FlowSend(f)
        /\ \A f \in Flows :
              (alive /\ isPc = "select" /\ done[f] # <<>>) => ENABLED SessionSelect(f)
        /\ isPc = "select" => Received = {}
        /\ (isPc = "returned" /\ fpc["reader"] # "off") =>
              /\ handed # <<>>
              /\ \E f \in Flows :
                    /\ Received = {f}
                    /\ isRet = fres[f]
                    /\ f # handed[1] => handed = <<handed[1], f>>
              /\ \A g \in Flows \ Received :
                    fpc[g] = "done" => done[g] = <<fres[g]>>
C18_Witness ==
    /\ isPc = "returned"
    /\ fpc["reader"] = "done"
    /\ done["reader"] = <<>>
    /\ fpc["writer"] = "done"
    /\ fcause["writer"] = ERROR_INVALID_HANDLE
    /\ done["writer"] = <<fres["writer"]>>

\* C19: with a read pending a write can be issued and complete, with a
\* write pending a read can; and a flow's wait does not end while its own
\* operation is still pending, whatever the other flow's operation does
C19_ReadsAndWritesIndependent ==
    /\ (alive /\ hOpen /\ io["reader"] = "pending" /\ fpc["writer"] = "write") =>
          ENABLED WriterWrite(Nil)
    /\ (alive /\ hOpen /\ io["writer"] = "pending" /\ fpc["reader"] = "read"
          /\ toHost # <<>>) => ENABLED ReaderRead(Nil)
    /\ (fpc["reader"] = "wait" /\ io["reader"] = "pending") => ~ENABLED ReaderWait
    /\ (fpc["writer"] = "wait" /\ io["writer"] = "pending") => ~ENABLED WriterWait

\* both operations were in flight and the write has completed first
C19_Witness ==
    /\ fpc["reader"] = "wait"
    /\ io["reader"] = "pending"
    /\ fpc["writer"] = "wait"
    /\ io["writer"] = "complete"
    /\ ioErr["writer"] = Nil

\* C20: a flow that returned because a read or write on the pipe reported
\* an error returned nil for EOF, broken pipe (109) and pipe not connected
\* (233), and that error otherwise
C20_PeerCloseIsNormalEnd ==
    \A f \in Flows :
        (fpc[f] \in {"send", "done"} /\ fcause[f] # Nil) =>
            fres[f] = IF fcause[f] \in {EOF, ERROR_BROKEN_PIPE, ERROR_PIPE_NOT_CONNECTED}
                      THEN Nil ELSE fcause[f]

\* the reader ended on pipe-not-connected after a pending read, the writer
\* on another error
C20_Witness ==
    /\ fcause["reader"] = ERROR_PIPE_NOT_CONNECTED
    /\ fres["reader"] = Nil
    /\ fcause["writer"] = ERROR_ACCESS_DENIED
    /\ fres["writer"] = ERROR_ACCESS_DENIED


\* ------------------------------------------- RunProcess (process.go, GCS)

\* largest exit status of the guest process that is tried
MaxExitStatus == 2

\* the handles the service may put in HcsProcessInformation: 0 is "absent"
ProcessInfos ==
    [StdInput : {0, 11}, StdOutput : {0, 12}, StdError : {0, 13}]

\* "/bin/sh"
BinSh == <<47, 98, 105, 110, 47, 115, 104>>

\* fmt.Errorf("GCS stdio handles not available; use serial console")
StdioUnavailable ==
    [kind |-> "text", code |-> S_OK,
     detail |-> "GCS stdio handles not available; use serial console",
     ctx |-> <<>>]

CreateProcessFailedOnPending(h) == h # S_OK
\* HcsCreateProcess: any HRESULT but 0 and pending is a failure; pending is
\* returned like success, with no wait
CreateProcessFailed(h) == h # S_OK /\ h # errOperationPending

\* RunProcess's test on the returned HcsProcessInformation
StdioAbsent(info) == info.StdInput = 0 /\ info.StdOutput = 0

\* one call of RunProcess on a started VM, by a caller that falls back to the
\* serial console
InitProcess ==
    /\ InitLifecycle
    /\ vpc = [t \in Threads |-> "off"]
    /\ TransformIdle
    /\ OpenIdle
    /\ CommandIdle
    /\ SessionIdle
    /\ OpsIdle
    /\ rpPc = "create"
    /\ rpArgs \in {<<>>, <<Echo, Hi>>}
    /\ rpCmdLine = <<>>
    /\ rpHr = InFlight
    /\ rpInfo = NoProcessInfo
    /\ rpExit \in 0..MaxExitStatus
    /\ rpStreams = {}
    /\ rpCopies = {}
    /\ rpProcCloses = 0
    /\ rpRet = [code |-> 0, err |-> Nil]
    /\ rpFallback = FALSE

\* RunProcess up to the return of vmcompute.HcsCreateProcess: the default
\* args, the command line, the service call answering h and filling in info
ProcessCreate(h, info) ==
    /\ rpPc = "create"
    /\ LET args == IF Len(rpArgs) = 0 THEN <<BinSh>> ELSE rpArgs
       IN /\ rpArgs' = args
          /\ rpCmdLine' = shellJoin(args)
    /\ rpHr' = h
    /\ IF CreateProcessFailed(h)
       THEN /\ rpRet' = [code |-> -1,
                         err |-> Wrap("HcsCreateProcess", hresultError(h, ""))]
            /\ rpPc' = "returned"
            /\ UNCHANGED rpInfo
       ELSE /\ rpInfo' = info
            /\ rpPc' = "check"
            /\ UNCHANGED rpRet
    /\ UNCHANGED <<rpExit, rpStreams, rpCopies, rpProcCloses, rpFallback>>
    /\ UNCHANGED exceptProcess

\* RunProcess: defer HcsCloseProcess(proc); without stdin and stdout handles
\* return -1 and the error, else wrap the three handles in files and start
\* the copies
ProcessCheck ==
    /\ rpPc = "check"
    /\ IF StdioAbsent(rpInfo)
       THEN /\ rpRet' = [code |-> -1, err |-> StdioUnavailable]
            /\ rpProcCloses' = rpProcCloses + 1
            /\ rpPc' = "returned"
            /\ UNCHANGED <<rpStreams, rpCopies>>
       ELSE /\ rpStreams' = {"stdin", "stdout", "stderr"}
            /\ rpCopies' = {"stdin", "stdout", "stderr"}
            /\ rpPc' = "copy"
            /\ UNCHANGED <<rpRet, rpProcCloses>>
    /\ UNCHANGED <<rpArgs, rpCmdLine, rpHr, rpInfo, rpExit, rpFallback>>
    /\ UNCHANGED exceptProcess

\* a copy goroutine ends, its source closed or failing: the guest's stdout
\* or stderr (at the exit of the guest process, or at once on an absent
\* handle), or the host's input, after which stdin.Close() is run
CopyEnds(c) ==
    /\ rpPc \in {"copy", "returned", "caller_done"}
    /\ c \in rpCopies
    /\ rpCopies' = rpCopies \ {c}
    /\ rpStreams' = IF c = "stdin" THEN rpStreams \ {"stdin"} ELSE rpStreams
    /\ UNCHANGED <<rpPc, rpArgs, rpCmdLine, rpHr, rpInfo, rpExit, rpProcCloses,
                   rpRet, rpFallback>>
    /\ UNCHANGED exceptProcess

\* done is closed by the goroutine that copies the guest's stdout
ReturnsAfter(copies) == "stdout" \notin copies

\* the copy of the guest's stdout has ended: <-done; stdout.Close();
\* stderr.Close(); return 0, nil, and the deferred HcsCloseProcess
ProcessReturn ==
    /\ rpPc = "copy"
    /\ ReturnsAfter(rpCopies)
    /\ rpStreams' = rpStreams \ {"stdout", "stderr"}
    /\ rpRet' = [code |-> 0, err |-> Nil]
    /\ rpProcCloses' = rpProcCloses + 1
    /\ rpPc' = "returned"
    /\ UNCHANGED <<rpArgs, rpCmdLine, rpHr, rpInfo, rpExit, rpCopies, rpFallback>>
    /\ UNCHANGED exceptProcess

\* the caller: if err != nil, fall back to RunCommand over the serial console
CallerFallsBack ==
    /\ rpPc = "returned"
    /\ rpFallback' = (rpRet.err # Nil)
    /\ rpPc' = "caller_done"
    /\ UNCHANGED <<rpArgs, rpCmdLine, rpHr, rpInfo, rpExit, rpStreams, rpCopies,
                   rpProcCloses, rpRet>>
    /\ UNCHANGED exceptProcess

NextProcess ==
    \/ \E h \in RunHrValues, info \in ProcessInfos : ProcessCreate(h, info)
    \/ ProcessCheck
    \/ \E c \in {"stdin", "stdout", "stderr"} : CopyEnds(c)
    \/ ProcessReturn
    \/ CallerFallsBack

SpecProcess == InitProcess /\ [][NextProcess]_vars

ProcessReturned == rpPc \in {"returned", "caller_done"}

\* C21: RunProcess signals "unsupported" exactly when the call succeeded and
\* the input, output and error descriptors it returned are all absent, and
\* the caller falls back to the console only on that signal, not on any
\* other error.
C21_UnsupportedSignal ==
    /\ ProcessReturned =>
          (rpRet.err = StdioUnavailable
             <=> (~CreateProcessFailed(rpHr) /\ rpInfo = NoProcessInfo))
    /\ rpFallback => rpRet.err = StdioUnavailable

\* C28: after a run that succeeded the integer RunProcess returned is the
\* exit status of the guest process.
C28_ReturnsGuestExitCode ==
    (ProcessReturned /\ rpRet.err = Nil) => rpRet.code = rpExit


\* ------------------------------------- Start, Exec, Stop, Kill (vm.go)

Commands == {"run", "runi", "exec", "attach", "stop", "kill"}

\* where each command begins: cmdRun calls vm.Start, whose first statement is
\* cleanup's open by id; Exec, Attach, Stop and Kill open by id themselves
FirstStep(c) ==
    CASE c \in {"run", "runi"} -> "st_open"
      [] c = "exec" -> "ex_open"
      [] c = "attach" -> "at_open"
      [] c = "stop" -> "sp_open"
      [] OTHER -> "kl_open"

\* the commands that take -debug and -trace
DebugCommands == {"run", "runi", "exec"}

\* where cmdRun and cmdExec begin when f.debug is set: they build the
\* configuration once themselves before they call vm.Start or vm.Exec
CommandEntry(c, dbg) ==
    IF c \in DebugCommands /\ dbg THEN "dbg_build" ELSE FirstStep(c)

\* the signal goroutine of a command once vm.Start has returned the VM:
\* run -i starts it, parked on sigCh
SignalGoroutine(c) == IF c = "runi" THEN "sigwait" ELSE "off"

OpenSites == {"st_open", "ex_open", "at_open", "sp_open", "kl_open"}

AfterOpenAlwaysProceeds(site, opened) ==
    CASE site = "st_open" -> "st_terminate_call"
      [] site = "ex_open" -> "ex_probe_close"
      [] site = "at_open" -> "at_close"
      [] site = "sp_open" -> "sp_call"
      [] OTHER -> "kl_call"
\* where the caller of HcsOpenComputeSystem goes: cleanup terminates an
\* opened VM and returns nil without one; Exec uses the VM it opened and
\* calls Start without one; Attach, Stop and Kill go on with an opened VM
\* and return the error without one
AfterOpen(site, opened) ==
    CASE site = "st_open" -> IF opened THEN "st_terminate_call" ELSE "st_build"
      [] site = "ex_open" -> IF opened THEN "ex_probe_close" ELSE "st_open"
      [] site = "at_open" -> IF opened THEN "at_close" ELSE "returned"
      [] site = "sp_open" -> IF opened THEN "sp_call" ELSE "returned"
      [] OTHER -> IF opened THEN "kl_call" ELSE "returned"

\* the sites that return the error of a failed open
ReturnsOpenError(site) == site \in {"at_open", "sp_open", "kl_open"}

\* fmt.Errorf("VM %q not found: %w", id, err) in Attach,
\* fmt.Errorf("open VM %q: %w", id, err) in Stop and Kill
OpenErrorOf(site, e) ==
    IF site = "at_open" THEN Wrap("VM not found", e) ELSE Wrap("open VM", e)

\* the id as UTF-16 for the service: UTF16PtrFromString(id)
IdError(ok) == IF ok THEN Nil ELSE EINVAL

\* what HcsOpenComputeSystem returns: the conversion's error, with no call
\* of the service, else the error of the answer r
OpenResult(ok, r) == IF IdError(ok) # Nil THEN IdError(ok) ELSE hresultError(r, "")

CallSites == {"st_terminate_call", "st_create_call", "st_start_call",
              "sp_call", "kl_call"}

StopOpTerminates(site) ==
    CASE site = "st_create_call" -> "create"
      [] site = "st_start_call" -> "start"
      [] OTHER -> "terminate"
\* the facade function called at each site
OpAt(site) ==
    CASE site = "st_create_call" -> "create"
      [] site = "st_start_call" -> "start"
      [] site = "sp_call" -> "shutdown"
      [] OTHER -> "terminate"

\* the site at which that function's result is handled
ResultSite(site) ==
    CASE site = "st_terminate_call" -> "st_terminate"
      [] site = "st_create_call" -> "st_create"
      [] site = "st_start_call" -> "st_start"
      [] site = "sp_call" -> "sp_shutdown"
      [] OTHER -> "kl_terminate"

\* fmt.Errorf("image directory must not be empty")
ConfigError ==
    [kind |-> "text", code |-> S_OK,
     detail |-> "image directory must not be empty", ctx |-> <<>>]

\* what the caller of vm.Start returns for Start's error: Exec wraps it
StartError(c, e) == IF c = "exec" THEN Wrap("start VM", e) ELSE e

StartProceedsAlways(e) == TRUE
\* Start goes on to the next lifecycle call only if the last one returned nil
StartProceeds(e) == e = Nil

ClosesAfterFailureNotKill(site) == site # "kl_terminate"
\* Start, Stop and Kill close the handle when their lifecycle call failed
ClosesAfterFailure(site) == site \in {"st_start", "sp_shutdown", "kl_terminate"}

AfterStartedShutsDown(c) == IF c = "exec" THEN "ex_command" ELSE "shell"
\* what follows a VM record returned by vm.Start
AfterStarted(c) ==
    CASE c = "run" -> "run_close"
      [] c = "runi" -> "shell"
      [] OTHER -> "ex_command"

CloseSites == {"run_close", "ex_probe_close", "ex_close", "at_close"}

\* what follows the close of a handle at each site
AfterClose(site) ==
    CASE site = "ex_probe_close" -> "ex_command"
      [] site = "at_close" -> "at_shell"
      [] OTHER -> "returned"

\* what RunCommand returns: nil, the wrapped errors of the open, of the wait
\* for the prompt and of the write, and collectUntilPrompt's error as it is
ConsoleErrors ==
    {Nil, Wrap("open console pipe", PipeTimeoutError),
     Wrap("wait for prompt", EOF), Wrap("write command", ERROR_NO_DATA), EOF}

\* what InteractiveShell returns: nil, the wrapped error of the open, the
\* error of a flow that was no close of the pipe
ShellResults ==
    {Nil, Wrap("open console pipe", PipeTimeoutError),
     PipeResult(ERROR_ACCESS_DENIED)}

\* the commands taken from their first statement; cmdRun is the same with
\* and without -i until vm.Start has returned the VM
EntryCommands == Commands \ {"runi"}

\* a command at its first statement, with or without f.debug
InitEntry ==
    /\ InitLifecycle
    /\ cmd \in EntryCommands
    /\ cfgOk \in BOOLEAN
    /\ idOk \in BOOLEAN
    /\ \E dbg \in (IF cmd \in DebugCommands THEN BOOLEAN ELSE {FALSE}) :
          vpc = [t \in Threads |->
                    IF t = "main" THEN CommandEntry(cmd, dbg) ELSE "off"]
    /\ trail = <<>>
    /\ held = "none"
    /\ hclosed = 0
    /\ vmRec = FALSE
    /\ opRet = Nil

\* the calls of a vm.Start that found no VM to clean up and whose create
\* and start the service answered at once
StartedLog ==
    <<[api |-> "HcsOpenComputeSystem", hr |-> E_FAIL],
      [api |-> "HcsCreateComputeSystem", hr |-> S_OK],
      [api |-> "HcsRegisterComputeSystemCallback", hr |-> S_OK],
      [api |-> "HcsStartComputeSystem", hr |-> S_OK],
      [api |-> "HcsUnregisterComputeSystemCallback", hr |-> S_OK]>>

\* cmdRun -i after such a vm.Start: the VM record is returned, the signal
\* goroutine is parked on sigCh and InteractiveShell is called
InitInteractive ==
    /\ pc = [t \in Threads |-> IF t = "main" THEN "done" ELSE "idle"]
    /\ op = [t \in Threads |-> IF t = "main" THEN "start" ELSE "none"]
    /\ argsOk = [t \in Threads |-> TRUE]
    /\ reg = [t \in Threads |-> FALSE]
    /\ ch = [t \in Threads |-> <<>>]
    /\ hr = [t \in Threads |-> IF t = "main" THEN S_OK ELSE InFlight]
    /\ ret = [t \in Threads |-> NoReturn]
    /\ calls = [t \in Threads |-> <<>>]
    /\ closes = 0
    /\ notified = [t \in Threads |-> <<>>]
    /\ entered = [t \in Threads |->
                     IF t = "main" THEN <<"create", "start">> ELSE <<>>]
    /\ shutdownErr = [t \in Threads |-> Nil]
    /\ vret = [t \in Threads |-> Nil]
    /\ alive = TRUE
    /\ cmd = "runi"
    /\ cfgOk = TRUE
    /\ idOk = TRUE
    /\ vpc = [t \in Threads |->
                 IF t = "main" THEN AfterStarted(cmd) ELSE SignalGoroutine(cmd)]
    /\ trail = StartedLog
    /\ held = "create"
    /\ hclosed = 0
    /\ vmRec = TRUE
    /\ opRet = Nil

\* one command on one VM id
InitOps ==
    /\ InitEntry \/ InitInteractive
    /\ TransformIdle
    /\ OpenIdle
    /\ CommandIdle
    /\ SessionIdle
    /\ ProcessIdle

\* cmdRun, cmdExec with f.debug: config.BuildJSON(cfg); on its error
\* log.Fatalf ends the process before vm.Start or vm.Exec is called
DebugBuild(t) ==
    /\ alive
    /\ vpc[t] = "dbg_build"
    /\ IF cfgOk
       THEN /\ vpc' = [vpc EXCEPT ![t] = FirstStep(cmd)]
            /\ UNCHANGED alive
       ELSE /\ vpc' = [vpc EXCEPT ![t] = "fatal"]
            /\ alive' = FALSE
    /\ UNCHANGED <<pc, op, argsOk, reg, ch, hr, ret, calls, closes, notified,
                   entered, shutdownErr, vret>>
    /\ UNCHANGED opsVars
    /\ UNCHANGED opsFrame

\* vmcompute.HcsOpenComputeSystem(id), the service answering r when it is
\* called, and the caller's test of its error
OpsOpen(t, r) ==
    /\ alive
    /\ vpc[t] \in OpenSites
    /\ calls' = IF IdError(idOk) = Nil
                THEN Issue(t, "HcsOpenComputeSystem", r) ELSE calls
    /\ IF OpenResult(idOk, r) = Nil
       THEN /\ held' = "open"
            /\ hclosed' = 0
            /\ UNCHANGED opRet
       ELSE /\ opRet' = IF ReturnsOpenError(vpc[t])
                        THEN OpenErrorOf(vpc[t], OpenResult(idOk, r)) ELSE opRet
            /\ UNCHANGED <<held, hclosed>>
    /\ vpc' = [vpc EXCEPT ![t] = AfterOpen(@, OpenResult(idOk, r) = Nil)]
    /\ UNCHANGED <<pc, op, argsOk, reg, ch, hr, ret, closes, notified, entered,
                   shutdownErr, vret, alive>>
    /\ UNCHANGED <<cmd, cfgOk, idOk, trail, vmRec>>
    /\ UNCHANGED opsFrame

\* the strings the function called at a site converts: create the id and
\* the configuration BuildJSON made, the others their empty options
ArgsAt(site, ok) == OpAt(site) = "create" => ok

\* the call of HcsTerminate/Create/Start/ShutdownComputeSystem at a site
OpsCall(t) ==
    /\ alive
    /\ vpc[t] \in CallSites
    /\ Enter(t, OpAt(vpc[t]), ArgsAt(vpc[t], idOk))
    /\ trail' = trail \o calls[t]
    /\ vpc' = [vpc EXCEPT ![t] = ResultSite(@)]
    /\ UNCHANGED <<shutdownErr, vret, alive>>
    /\ UNCHANGED <<cmd, cfgOk, idOk, held, hclosed, vmRec, opRet>>
    /\ UNCHANGED opsFrame

\* cleanup after its terminate, whose error is dropped: sleep 300 ms, close
\* the handle and return the close's error, which Start only logs
CleanupClose(t, r) ==
    /\ alive
    /\ vpc[t] = "st_terminate"
    /\ pc[t] = "done"
    /\ calls' = Issue(t, "HcsCloseComputeSystem", r)
    /\ closes' = closes + 1
    /\ hclosed' = hclosed + 1
    /\ vpc' = [vpc EXCEPT ![t] = "st_build"]
    /\ UNCHANGED <<pc, op, argsOk, reg, ch, hr, ret, notified, entered,
                   shutdownErr, vret, alive>>
    /\ UNCHANGED <<cmd, cfgOk, idOk, trail, held, vmRec, opRet>>
    /\ UNCHANGED opsFrame

\* Start: config.BuildJSON(cfg); its error is returned
BuildConfig(t) ==
    /\ alive
    /\ vpc[t] = "st_build"
    /\ IF cfgOk
       THEN /\ vpc' = [vpc EXCEPT ![t] = "st_create_call"]
            /\ UNCHANGED opRet
       ELSE /\ opRet' = StartError(cmd, Wrap("build config", ConfigError))
            /\ vpc' = [vpc EXCEPT ![t] = "returned"]
    /\ UNCHANGED <<pc, op, argsOk, reg, ch, hr, ret, calls, closes, notified,
                   entered, shutdownErr, vret, alive>>
    /\ UNCHANGED <<cmd, cfgOk, idOk, trail, held, hclosed, vmRec>>
    /\ UNCHANGED opsFrame

\* Start after HcsCreateComputeSystem: return its error, or keep the handle
\* and go on to start
AfterCreate(t) ==
    /\ alive
    /\ vpc[t] = "st_create"
    /\ pc[t] = "done"
    /\ IF StartProceeds(ret[t].err)
       THEN /\ held' = "create"
            /\ hclosed' = 0
            /\ vpc' = [vpc EXCEPT ![t] = "st_start_call"]
            /\ UNCHANGED opRet
       ELSE /\ opRet' = StartError(cmd, Wrap("HcsCreateComputeSystem", ret[t].err))
            /\ vpc' = [vpc EXCEPT ![t] = "returned"]
            /\ UNCHANGED <<held, hclosed>>
    /\ UNCHANGED <<pc, op, argsOk, reg, ch, hr, ret, calls, closes, notified,
                   entered, shutdownErr, vret, alive>>
    /\ UNCHANGED <<cmd, cfgOk, idOk, trail, vmRec>>
    /\ UNCHANGED opsFrame


\* Start after HcsStartComputeSystem: on an error close the handle and
\* return the error, else return the VM record to the command, which for
\* run -i starts the signal goroutine
AfterStart(t, r) ==
    /\ alive
    /\ vpc[t] = "st_start"
    /\ pc[t] = "done"
    /\ IF StartProceeds(ret[t].err)
       THEN /\ vmRec' = TRUE
            /\ trail' = trail \o calls[t]
            /\ calls' = [calls EXCEPT ![t] = <<>>]
            /\ vpc' = [vpc EXCEPT ![t] = AfterStarted(cmd),
                                  !["sig"] = SignalGoroutine(cmd)]
            /\ UNCHANGED <<closes, hclosed, opRet>>
       ELSE /\ IF ClosesAfterFailure(vpc[t])
               THEN /\ calls' = Issue(t, "HcsCloseComputeSystem", r)
                    /\ closes' = closes + 1
                    /\ hclosed' = hclosed + 1
               ELSE UNCHANGED <<calls, closes, hclosed>>
            /\ opRet' = StartError(cmd, Wrap("HcsStartComputeSystem", ret[t].err))
            /\ vpc' = [vpc EXCEPT ![t] = "returned"]
            /\ UNCHANGED <<vmRec, trail>>
    /\ UNCHANGED <<pc, op, argsOk, reg, ch, hr, ret, notified, entered,
                   shutdownErr, vret, alive>>
    /\ UNCHANGED <<cmd, cfgOk, idOk, held>>
    /\ UNCHANGED opsFrame

\* HcsCloseComputeSystem answering r: machine.Close() of a detached run,
\* Exec's close of its probe handle, Exec's close after the command
OpsClose(t, r) ==
    /\ alive
    /\ vpc[t] \in CloseSites
    /\ calls' = Issue(t, "HcsCloseComputeSystem", r)
    /\ closes' = closes + 1
    /\ hclosed' = hclosed + 1
    /\ vpc' = [vpc EXCEPT ![t] = AfterClose(@)]
    /\ UNCHANGED <<pc, op, argsOk, reg, ch, hr, ret, notified, entered,
                   shutdownErr, vret, alive>>
    /\ UNCHANGED <<cmd, cfgOk, idOk, trail, held, vmRec, opRet>>
    /\ UNCHANGED opsFrame

\* Exec: RunCommand(cfg.PipeName, args) returns e, which Exec returns:
\* at once on a VM it opened, after the close on a VM it started
ExecRunCommand(t, e) ==
    /\ alive
    /\ vpc[t] = "ex_command"
    /\ calls' = Issue(t, "RunCommand", IF e = Nil THEN S_OK ELSE E_FAIL)
    /\ opRet' = e
    /\ vpc' = [vpc EXCEPT ![t] = IF vmRec THEN "ex_close" ELSE "returned"]
    /\ UNCHANGED <<pc, op, argsOk, reg, ch, hr, ret, closes, notified, entered,
                   shutdownErr, vret, alive>>
    /\ UNCHANGED <<cmd, cfgOk, idOk, trail, held, hclosed, vmRec>>
    /\ UNCHANGED opsFrame

\* Attach after the close of its handle: v.InteractiveShell(pipeName)
\* returns e, which Attach returns; no Shutdown follows
AttachShell(t, e) ==
    /\ alive
    /\ vpc[t] = "at_shell"
    /\ calls' = Issue(t, "InteractiveShell", IF e = Nil THEN S_OK ELSE E_FAIL)
    /\ opRet' = e
    /\ vpc' = [vpc EXCEPT ![t] = "returned"]
    /\ UNCHANGED <<pc, op, argsOk, reg, ch, hr, ret, closes, notified, entered,
                   shutdownErr, vret, alive>>
    /\ UNCHANGED <<cmd, cfgOk, idOk, trail, held, hclosed, vmRec>>
    /\ UNCHANGED opsFrame

\* Stop after HcsShutdownComputeSystem, Kill after HcsTerminateComputeSystem:
\* on an error close the handle and return the error; else (Stop: after
\* 500 ms) return what the close of the handle returns
AfterByIdCall(t, r) ==
    /\ alive
    /\ vpc[t] \in {"sp_shutdown", "kl_terminate"}
    /\ pc[t] = "done"
    /\ IF ret[t].err = Nil \/ ClosesAfterFailure(vpc[t])
       THEN /\ calls' = Issue(t, "HcsCloseComputeSystem", r)
            /\ closes' = closes + 1
            /\ hclosed' = hclosed + 1
       ELSE UNCHANGED <<calls, closes, hclosed>>
    /\ opRet' = IF ret[t].err # Nil
                THEN Wrap(IF vpc[t] = "sp_shutdown" THEN "shutdown VM"
                          ELSE "terminate VM", ret[t].err)
                ELSE hresultError(r, "")
    /\ vpc' = [vpc EXCEPT ![t] = "returned"]
    /\ UNCHANGED <<pc, op, argsOk, reg, ch, hr, ret, notified, entered,
                   shutdownErr, vret, alive>>
    /\ UNCHANGED <<cmd, cfgOk, idOk, trail, held, vmRec>>
    /\ UNCHANGED opsFrame

OpsStep(t) ==
    \/ DebugBuild(t)
    \/ \E r \in SimpleHrValues : OpsOpen(t, r)
    \/ OpsCall(t)
    \/ \E r \in SimpleHrValues : CleanupClose(t, r)
    \/ BuildConfig(t)
    \/ AfterCreate(t)
    \/ \E r \in SimpleHrValues : AfterStart(t, r)
    \/ \E r \in SimpleHrValues : OpsClose(t, r)
    \/ \E e \in ConsoleErrors : ExecRunCommand(t, e)
    \/ \E e \in ShellResults : AttachShell(t, e)
    \/ \E r \in SimpleHrValues : AfterByIdCall(t, r)

\* the steps of the command's thread: the command, the facade function it
\* is in, and for run -i the end of the shell and VM.Shutdown
MainStep ==
    \/ OpsStep("main")
    \/ RunFacadeStep("main")
    \/ CreateCloseOnWaitFailure("main")
    \/ ShellEnds
    \/ ShutdownStep("main")
    \/ MainReturns

\* the steps of the signal goroutine of run -i
SignalStep ==
    \/ SignalReceived
    \/ RunFacadeStep("sig")
    \/ ShutdownStep("sig")
    \/ SignalExit

NextOps ==
    \/ MainStep
    \/ SignalStep
    \/ \E k \in NotificationTypes, s \in RunStatusValues : Notify(k, s)

SpecOps == InitOps /\ [][NextOps]_vars

\* the thread of the command is scheduled as long as it can run; the
\* service need not fire anything
SpecOpsFair == SpecOps /\ WF_vars(MainStep)

\* the attach command: the open by id, the close of the handle, the
\* session and the end of the process
NextSession ==
    \/ \E r \in SimpleHrValues : OpsOpen("main", r)
    \/ \E r \in SimpleHrValues : OpsClose("main", r)
    \/ \E err \in {Nil, PipeTimeoutError} : SessionOpen(err)
    \/ \E f \in Flows : SessionSelect(f)
    \/ AttachReturns
    \/ GuestEmit
    \/ \E e \in {Nil, ERROR_NOT_ENOUGH_MEMORY} : ReaderStart(e)
    \/ \E res \in IssueResults : ReaderRead(res)
    \/ ReaderWait
    \/ \E e \in {Nil, ERROR_NOT_ENOUGH_MEMORY} : WriterStart(e)
    \/ \E n \in 1..2, end \in BOOLEAN : WriterRead(n, end)
    \/ WriterReadEnd
    \/ \E res \in IssueResults : WriterWrite(res)
    \/ WriterWait
    \/ \E f \in Flows, e \in {Nil} \cup PipeErrors : IoComplete(f, e)
    \/ \E f \in Flows : FlowSend(f)

SpecSession == InitSession /\ [][NextSession]_vars

\* ------------------------------------------------ reading a command's log

\* the calls the command has made so far, in order
Log == trail \o calls[Main]
CountIn(s, api) == Cardinality({i \in DOMAIN s : s[i].api = api})
Elems(s) == {s[i] : i \in DOMAIN s}
Apis(s) == [i \in DOMAIN s |-> s[i].api]
\* the facade functions the command has called
Entered == entered[Main]
\* the calls of the service an open by id makes: none when the id cannot
\* be converted
OpenCalls == IF idOk THEN 1 ELSE 0
\* Exec's own open has returned
ExecOpenReturned ==
    cmd = "exec" /\ vpc[Main] # "ex_open" /\ Len(Log) >= OpenCalls
\* Exec's own open gave a handle
ExecOpened == ExecOpenReturned /\ idOk /\ Log[1].hr = S_OK
\* Exec's own open failed, so that it calls vm.Start
ExecStarts == ExecOpenReturned /\ ~ExecOpened
\* the command has called vm.Start
StartCalled == cmd \in {"run", "runi"} \/ ExecStarts
\* the place of cleanup's open in the log
CleanupOpen == IF cmd = "exec" THEN 2 * OpenCalls ELSE OpenCalls
\* cleanup's open gave a handle
CleanupOpened == idOk /\ Log[CleanupOpen].hr = S_OK
CleanupDone == vpc[Main] = "st_build"

\* C22: cleanup is best-effort. When its open by id failed nothing was
\* terminated or closed; when it succeeded terminate was called once and the
\* handle was closed exactly once, last, whatever terminate returned. In
\* both cases Start goes on to build the configuration, and it has called
\* create whenever the configuration could be built.
C22_CleanupBestEffort ==
    /\ CleanupDone =>
          /\ opRet = Nil
          /\ ENABLED BuildConfig(Main)
          /\ IF ~CleanupOpened
             THEN /\ Len(Log) = CleanupOpen
                  /\ Entered = <<>>
                  /\ closes = 0
             ELSE /\ Entered = <<"terminate">>
                  /\ CountIn(Log, "HcsTerminateComputeSystem")
                        = (IF RegisterFailed(Main) = {} THEN 1 ELSE 0)
                  /\ CountIn(Log, "HcsCloseComputeSystem") = 1
                  /\ Log[Len(Log)].api = "HcsCloseComputeSystem"
                  /\ closes = 1
                  /\ hclosed = 1
    /\ (StartCalled /\ cfgOk /\ vpc[Main] = "returned") =>
          "create" \in Elems(Entered)

\* cleanup found the VM, its terminate failed in the service, the handle was
\* closed once and Start has called create
C22_Witness ==
    /\ vpc[Main] = "st_create"
    /\ \E i \in DOMAIN Log :
          /\ Log[i].api = "HcsTerminateComputeSystem"
          /\ Log[i].hr = E_FAIL
    /\ CountIn(Log, "HcsCloseComputeSystem") = 1
    /\ Entered = <<"terminate", "create">>


\* the calls of the log that ask the service to stop the VM
StopCalls(s) ==
    {i \in DOMAIN s :
        s[i].api \in {"HcsShutdownComputeSystem", "HcsTerminateComputeSystem"}}
\* a handle came out of the calls logged before the i-th
HandleBefore(s, i) ==
    \E j \in 1..(i - 1) :
        \/ s[j].api = "HcsOpenComputeSystem" /\ s[j].hr = S_OK
        \/ s[j].api = "HcsCreateComputeSystem"
              /\ s[j].hr \in {S_OK, errOperationPending}

\* C23: Start calls start only when create has returned, without error and
\* with the handle, from a call that answered success or pending; the VM
\* record exists only when start has returned without error in the same
\* way; and every shutdown or terminate follows, in the command's log, the
\* successful open or the create that gave the handle it is issued on.
C23_StartOrder ==
    /\ (vpc[Main] = "st_start_call" \/ "start" \in Elems(Entered)) =>
          /\ held = "create"
          /\ \E i \in DOMAIN Entered :
                /\ Entered[i] = "create"
                /\ i < Len(Entered) => Entered[i + 1] = "start"
    /\ vpc[Main] = "st_start_call" =>
          /\ op[Main] = "create" /\ pc[Main] = "done"
          /\ ret[Main] = [err |-> Nil, system |-> SystemHandle]
          /\ hr[Main] \in {S_OK, errOperationPending}
    /\ \A i \in DOMAIN Log :
          Log[i].api = "HcsStartComputeSystem" =>
             \E j \in 1..(i - 1) :
                /\ Log[j].api = "HcsCreateComputeSystem"
                /\ Log[j].hr \in {S_OK, errOperationPending}
    /\ vmRec =>
          /\ \E i \in DOMAIN trail :
                /\ trail[i].api = "HcsStartComputeSystem"
                /\ trail[i].hr \in {S_OK, errOperationPending}
          /\ Entered[Len(Entered)] = "start" =>
                /\ ret[Main].err = Nil
                /\ pc[Main] = "done"
    /\ \A i \in StopCalls(Log) : held # "none" /\ HandleBefore(Log, i)
    /\ (StopCalls(calls[Main]) # {} /\ cmd = "runi" /\ vmRec) =>
          held = "create"

\* Start returned a VM record after a create and a start that both answered
\* pending and were completed by their notifications
C23_Witness ==
    /\ vmRec
    /\ \E i, j \in DOMAIN trail :
          /\ trail[i].api = "HcsCreateComputeSystem"
          /\ trail[i].hr = errOperationPending
          /\ trail[j].api = "HcsStartComputeSystem"
          /\ trail[j].hr = errOperationPending
          /\ i < j

\* C24: a command that got a handle and whose lifecycle call failed, by
\* timeout or otherwise, has closed that handle exactly once when it
\* returns: Start after a failed start, Kill after a failed terminate, Stop
\* after a failed shutdown, cleanup after its terminate, VM.Shutdown after a
\* failed terminate, on the main path and in the signal goroutine alike; and
\* no command closes its handle twice.
C24_ClosedOnceOnFailure ==
    /\ hclosed <= 1
    /\ (vpc[Main] = "returned" /\ held = "create" /\ ~vmRec) => hclosed = 1
    /\ (vpc[Main] = "returned" /\ cmd \in {"stop", "kill"} /\ held = "open") =>
          hclosed = 1
    /\ (CleanupDone /\ held = "open") => hclosed = 1
    /\ (vpc[Main] \in {"sd_done", "returned"} /\ cmd = "runi" /\ vmRec) =>
          /\ hclosed = 0
          /\ CountIn(calls[Main], "HcsCloseComputeSystem") = 1
    /\ vpc["sig"] \in {"sd_done", "exited"} =>
          CountIn(calls["sig"], "HcsCloseComputeSystem") = 1

\* Kill's terminate timed out and Kill has returned that, the handle closed once
C24_Witness ==
    /\ cmd = "kill"
    /\ vpc[Main] = "returned"
    /\ opRet = Wrap("terminate VM", TimeoutError(10))
    /\ hclosed = 1
    /\ closes = 1

\* C29: a run without -i makes no call but the close of the handle once
\* Start has returned the VM; Exec on a VM it could open calls no lifecycle
\* function and closes its probe handle once, before it uses the console;
\* Exec on a VM it started calls no lifecycle function after the start and
\* closes the handle once, after the command.
C29_DetachedLeavesRunning ==
    /\ (cmd \in {"run", "exec"} /\ vmRec) =>
          /\ Entered[Len(Entered)] = "start"
          /\ StopCalls(calls[Main]) = {}
    /\ (cmd = "run" /\ vmRec) =>
          Apis(calls[Main]) = (IF vpc[Main] = "returned"
                               THEN <<"HcsCloseComputeSystem">> ELSE <<>>)
    /\ (cmd = "exec" /\ vmRec /\ vpc[Main] = "returned") =>
          /\ Apis(calls[Main]) = <<"RunCommand", "HcsCloseComputeSystem">>
          /\ hclosed = 1
    /\ ExecOpened =>
          /\ Entered = <<>>
          /\ closes = hclosed
          /\ vpc[Main] = "returned" =>
                Apis(Log) = <<"HcsOpenComputeSystem", "HcsCloseComputeSystem",
                              "RunCommand">>

\* Exec started the VM, ran the command and returned with the handle closed
C29_Witness ==
    /\ cmd = "exec"
    /\ vmRec
    /\ vpc[Main] = "returned"
    /\ opRet = Nil
    /\ hclosed = 1

\* C30: Stop and Kill return an error after the failed open alone when the
\* VM cannot be opened; Stop calls shutdown and never terminate, Kill calls
\* terminate and never shutdown; and once the open succeeded they return
\* with the handle closed exactly once.
C30_StopAndKillById ==
    cmd \in {"stop", "kill"} =>
       /\ (vpc[Main] = "returned" /\ held = "none") =>
             /\ opRet # Nil
             /\ Entered = <<>>
             /\ Apis(Log) = (IF idOk THEN <<"HcsOpenComputeSystem">> ELSE <<>>)
             /\ closes = 0
       /\ \A i \in DOMAIN Entered :
             Entered[i] = (IF cmd = "stop" THEN "shutdown" ELSE "terminate")
       /\ Len(Entered) <= 1
       /\ CountIn(Log, IF cmd = "stop" THEN "HcsTerminateComputeSystem"
                       ELSE "HcsShutdownComputeSystem") = 0
       /\ closes = hclosed /\ hclosed <= 1
       /\ (vpc[Main] = "returned" /\ held = "open") =>
             /\ hclosed = 1
             /\ Log[Len(Log)].api = "HcsCloseComputeSystem"

\* Stop's shutdown timed out; Stop returned that error with the handle closed
\* once and without a terminate
C30_Witness ==
    /\ cmd = "stop"
    /\ vpc[Main] = "returned"
    /\ opRet = Wrap("shutdown VM", TimeoutError(30))
    /\ Entered = <<"shutdown">>
    /\ hclosed = 1


\* the ceilings as the claim gives them, in seconds
C25_Ceiling(o) ==
    CASE o = "create" -> 60
      [] o = "start" -> 120
      [] o = "shutdown" -> 30
      [] o = "terminate" -> 10

\* a Wait on an empty channel can end by its timer, and the error of a Wait
\* that ended so is the timeout error of the operation's ceiling
C25_TimeoutIsTheCeiling ==
    /\ (alive /\ pc[Main] = "wait" /\ ch[Main] = <<>>) =>
          ENABLED WaitTimeout(Main)
    /\ ret[Main].err.kind = "timeout" =>
          /\ hr[Main] = errOperationPending
          /\ [ret[Main].err EXCEPT !.ctx = <<>>]
                = TimeoutError(C25_Ceiling(op[Main]))
          /\ \A s \in StatusValues :
                [ret[Main].err EXCEPT !.ctx = <<>>] # hresultError(s, "")

\* C25: every wait of a pending operation ends, by a notification or by the
\* timeout error of its ceiling (create 60 s, start 120 s, shutdown 30 s,
\* terminate 10 s), which is no error a notification carries; so VM.Shutdown
\* always returns, also when its shutdown and its terminate both time out,
\* unless the signal goroutine ends the process first.
C25_WaitsAreBounded ==
    /\ []C25_TimeoutIsTheCeiling
    /\ (pc[Main] = "wait") ~> (pc[Main] # "wait" \/ ~alive)
    /\ (vpc[Main] = "sd_begin") ~>
          (vpc[Main] \in {"sd_done", "returned"} \/ ~alive)

\* VM.Shutdown has returned after its shutdown timed out at 30 s and its
\* terminate at 10 s
C25_Witness ==
    /\ cmd = "runi"
    /\ vpc[Main] = "sd_done"
    /\ shutdownErr[Main] = TimeoutError(30)
    /\ vret[Main] = Wrap("terminate", TimeoutError(10))


\* ------------------------------------ the console mode, any captured value

\* the highest bit of the mode word that is varied: bit 9 is
\* ENABLE_VIRTUAL_TERMINAL_INPUT, the highest input-mode flag
MaxModeBit == 9

ModeBits == {2^k : k \in 0..MaxModeBit}

\* vmrunner attach on a console that is in any mode, its user typing
\* nothing
InitMode ==
    /\ InitLifecycle
    /\ vpc = [t \in Threads |-> IF t = "main" THEN "at_open" ELSE "off"]
    /\ hostIn = <<>>
    /\ consumed = <<>> /\ piped = <<>> /\ prevCR = FALSE
    /\ pass = 0 /\ firstOut = <<>>
    /\ OpenIdle
    /\ guest = StreamGuest(Hi, FALSE)
    /\ gOut = guest.first
    /\ gGot = <<>> /\ gClosed = FALSE /\ toHost = <<>> /\ toGuest = <<>>
    /\ rcPc = "off" /\ rcArgs = <<>> /\ rcOpen = FALSE /\ last = 0
    /\ stdout = <<>> /\ rcRet = Nil
    /\ isPc = "open"
    /\ isRet = Nil
    /\ hOpen = FALSE
    /\ fpc = [f \in Flows |-> "off"]
    /\ fres = [f \in Flows |-> Nil]
    /\ fcause = [f \in Flows |-> Nil]
    /\ done = [f \in Flows |-> <<>>]
    /\ handed = <<>>
    /\ io = [f \in Flows |-> "none"]
    /\ ioErr = [f \in Flows |-> Nil]
    /\ ev = [f \in Flows |-> FALSE]
    /\ rbuf = <<>>
    /\ mode \in SUBSET ModeBits
    /\ oldMode = {}
    /\ restoreArmed = FALSE
    /\ isConsole = TRUE
    /\ hostEnd = "error"
    /\ outBuf = <<>>
    /\ readErr = Nil
    /\ readVia = "none"
    /\ readN = 0
    /\ ProcessIdle
    /\ cmd = "attach"
    /\ cfgOk = TRUE
    /\ idOk = TRUE
    /\ trail = <<>>
    /\ held = "none"
    /\ hclosed = 0
    /\ vmRec = FALSE
    /\ opRet = Nil

\* the VM is found, the session is opened and stdinToPipe runs to its
\* return
NextMode ==
    \/ OpsOpen("main", S_OK)
    \/ OpsClose("main", S_OK)
    \/ SessionOpen(Nil)
    \/ WriterStart(Nil)
    \/ WriterReadEnd
    \/ FlowSend("writer")

SpecMode == InitMode /\ [][NextMode]_vars

\* C26: the raw mode is the captured mode with the line-input and echo bits
\* cleared and the virtual-terminal-input bit set; every other bit,
\* processed input among them, is as it was captured, whatever the captured
\* mode is.
C26_RawModeBits ==
    (restoreArmed /\ fpc["writer"] = "read") =>
       /\ enableLineInput \notin mode
       /\ enableEchoInput \notin mode
       /\ enableVirtualTermInput \in mode
       /\ \A b \in ModeBits \ {enableLineInput, enableEchoInput,
                               enableVirtualTermInput} :
             b \in mode <=> b \in oldMode

\* a console captured with processed input, echo, bit 3 and
\* virtual-terminal input on is raw with echo alone cleared
C26_Witness ==
    /\ restoreArmed /\ fpc["writer"] = "read"
    /\ oldMode = {enableProcessedInput, enableEchoInput, 8, enableVirtualTermInput}
    /\ mode = {enableProcessedInput, 8, enableVirtualTermInput}


\* C27: when the host's input is not a terminal the terminal mode is never
\* written, no restore is deferred or run, host input is read with the
\* plain blocking read, and the bytes read still go through the line-ending
\* transform before they are written to the guest.
C27_NotATerminal ==
    ~isConsole =>
       /\ isPc # "off" => mode \in InitialModes
       /\ oldMode = {}
       /\ ~restoreArmed
       /\ readVia \in {"none", "os.Stdin.Read"}
       /\ fpc["writer"] = "read" => piped = LineEndings(consumed, 1)

\* redirected input CR LF was read, sent to the guest as one LF, and
\* stdinToPipe returned at the end of the input, the mode untouched
C27_Witness ==
    /\ ~isConsole
    /\ consumed = <<CR, LF>>
    /\ piped = <<LF>>
    /\ readVia = "os.Stdin.Read"
    /\ fpc["writer"] = "done"
    /\ mode \in InitialModes
    /\ ~restoreArmed


\* ------------------------------------- notificationWaiter.Close, called again

\* how many times Close is called on one waiter at most
MaxCloses == 2

\* w.Close() on a waiter that was closed before: the method holds no state
\* of its own and calls HcsUnregisterComputeSystemCallback(w.callbackHandle)
WaiterCloseAgain(t) ==
    /\ alive
    /\ pc[t] = "done"
    /\ RegisteredOk(t) # {}
    /\ CountCalls(t, "HcsUnregisterComputeSystemCallback") \in 1..(MaxCloses - 1)
    /\ calls' = Issue(t, "HcsUnregisterComputeSystemCallback", S_OK)
    /\ UNCHANGED <<pc, op, argsOk, reg, ch, hr, ret, closes, notified, entered,
                   vpc, shutdownErr, vret, alive>>
    /\ UNCHANGED consoleVars

\* a facade function runs with its waiter, and Close is then called on the
\* waiter once more
NextWaiter ==
    \/ \E o \in Ops : Invoke("main", o, TRUE)
    \/ RunFacadeStep("main")
    \/ CreateCloseOnWaitFailure("main")
    \/ \E k \in NotificationTypes, s \in RunStatusValues : Notify(k, s)
    \/ WaiterCloseAgain("main")

SpecWaiter == Init /\ [][NextWaiter]_vars

\* C31: releasing a waiter is idempotent: however often Close is called, the
\* callback handle of a waiter is unregistered with the service once.
C31_CloseIdempotent ==
    CountCalls(Main, "HcsUnregisterComputeSystemCallback")
        <= Cardinality(RegisteredOk(Main))


\* ------------------------------------------------- reading RunCommand's run

\* the guest has started to answer a command line
Replied == gGot # <<>> /\ gGot[Len(gGot)] = LF
\* the bytes the guest has printed so far
GuestSent ==
    LET all == IF Replied THEN guest.first \o guest.reply ELSE guest.first
    IN SubSeq(all, 1, Len(all) - Len(gOut))
\* the positions of s, among those a scanner that started reading at
\* position from has a predecessor for, that hold '#' or '$' after a space
PromptsFrom(s, from) ==
    {i \in (from + 1)..Len(s) :
        /\ s[i] \in {HASH, DOLLAR}
        /\ s[i - 1] = SPACE}
\* where waitForPrompt stopped
FirstStop == Least(PromptsFrom(stdout, 1))

\* C32: each scanner stops exactly at the first '#' or '$' whose
\* predecessor, read by the same scanner call, is a space: what the two
\* scanners have forwarded is what the guest printed, in order and once, up
\* to and including that prompt character and no byte beyond it is
\* consumed; a scanner whose stream ends first returns the read error; a
\* prompt character that is the first byte of a call does not count.
C32_ScannersStopAtPrompt ==
    /\ rcPc # "off" => stdout \o toHost = GuestSent
    /\ rcPc = "waitPrompt" => PromptsFrom(stdout, 1) = {}
    /\ rcPc = "write" => PromptsFrom(stdout, 1) = {Len(stdout)}
    /\ rcPc = "collect" =>
          /\ PromptsFrom(stdout, 1) # {}
          /\ PromptsFrom(stdout, FirstStop + 1) = {}
    /\ (rcPc = "returned" /\ rcRet = Nil) =>
          /\ PromptsFrom(stdout, 1) # {}
          /\ PromptsFrom(stdout, FirstStop + 1) = {Len(stdout)}
    /\ (rcPc = "returned" /\ rcRet.kind = "eof") =>
          /\ toHost = <<>>
          /\ gClosed
          /\ IF rcRet.ctx = <<>>
             THEN /\ PromptsFrom(stdout, 1) # {}
                  /\ PromptsFrom(stdout, FirstStop + 1) = {}
             ELSE PromptsFrom(stdout, 1) = {}

\* on "# $" the first scanner passed the leading '#' and stopped at the '$';
\* the second read "hi\n# $" and stopped at its '$'
C32_Witness ==
    /\ guest = ShellGuest(HashFirst)
    /\ rcPc = "returned"
    /\ rcRet = Nil
    /\ stdout = HashFirst \o Hi \o <<LF>> \o HashFirst
    /\ toHost = <<>>


\* every byte RunCommand has written to the console
Written == gGot \o toGuest
\* "echo hi\n"
EchoHiLine == Echo \o <<SPACE>> \o Hi \o <<LF>>
\* RunCommand returned the error of the step named by prefix
FailedAt(prefix) ==
    rcPc = "returned" /\ rcRet # Nil /\ rcRet.ctx # <<>> /\ rcRet.ctx[1] = prefix

\* C33: RunCommand writes nothing before the initial prompt has been seen
\* on the opened console, then writes the joined command and one newline,
\* once, and returns nil only after a prompt among the bytes read after the
\* write; a failed open, initial wait or write returns its error with none
\* of the later steps done; and the console is open from the successful
\* open to the return and closed at every return.
C33_RunCommandOrder ==
    /\ Written \in {<<>>, EchoHiLine}
    /\ Written # <<>> =>
          /\ PromptsFrom(stdout, 1) # {}
          /\ rcPc \in {"collect", "returned"}
    /\ rcPc = "collect" => Written = EchoHiLine
    /\ (rcPc = "returned" /\ rcRet = Nil) =>
          /\ Written = EchoHiLine
          /\ PromptsFrom(stdout, FirstStop + 1) # {}
          /\ Replied
    /\ FailedAt("open console pipe") => Written = <<>> /\ stdout = <<>>
    /\ FailedAt("wait for prompt") =>
          Written = <<>> /\ PromptsFrom(stdout, 1) = {}
    /\ FailedAt("write command") =>
          Written = <<>> /\ Len(stdout) = FirstStop
    /\ rcOpen <=> rcPc \in {"waitPrompt", "write", "collect"}

\* against the shell with prompt "/ # " RunCommand wrote "echo hi\n" after
\* the first prompt and returned nil after the second, the console closed
C33_Witness ==
    /\ guest = ShellGuest(SlashPrompt)
    /\ rcPc = "returned"
    /\ rcRet = Nil
    /\ gGot = EchoHiLine
    /\ stdout = <<47, SPACE, HASH, SPACE>> \o Hi \o <<LF, 47, SPACE, HASH>>
    /\ ~rcOpen


\* ---------------------------------------------------------------------
\* RunProcess: creation outcome, process handle, completion

CreateSucceeded == rpHr \in {S_OK, errOperationPending}

\* C34: RunProcess takes a pending outcome of the creation call as success
\* and waits for no notification (no callback is registered, no facade
\* wait is entered); after a creation that succeeded the process handle is
\* closed exactly once at every return, the unsupported one included, and
\* never otherwise; with descriptors present RunProcess can return as soon
\* as the copy of the guest's output has ended, whatever the copies of the
\* error stream and of the host's input are doing, and not before.
C34_PendingCloseAndCompletion ==
    /\ rpHr = errOperationPending =>
            /\ rpPc = "returned" => rpRet.err \in {Nil, StdioUnavailable}
            /\ pc[Main] = "idle" /\ calls[Main] = <<>> /\ ~reg[Main]
    /\ rpProcCloses =
            IF rpPc \in {"returned", "caller_done"} /\ CreateSucceeded
            THEN 1 ELSE 0
    /\ (rpPc = "copy" /\ "stdout" \notin rpCopies) => ENABLED ProcessReturn
    /\ (rpPc = "copy" /\ "stdout" \in rpCopies) => ~ENABLED ProcessReturn
    /\ (ProcessReturned /\ rpRet.err = Nil) => "stdout" \notin rpCopies

\* a pending creation, then a return while the copies of the error stream
\* and of the host's input still run
C34_Witness ==
    /\ rpPc = "returned"
    /\ rpHr = errOperationPending
    /\ rpRet = [code |-> 0, err |-> Nil]
    /\ rpCopies = {"stdin", "stderr"}
    /\ rpProcCloses = 1


\* ---------------------------------------------------------------------
\* create: the completion notification and the late registration

\* the notifications of t's operation delivered since its call was issued
SinceCallIssued(t) ==
    {i \in DOMAIN notified[t] : notified[t][i].at \in {"incall", "register", "wait"}}

\* the service reported to t nothing but the successful completion of the
\* creation, at least once after the create call was issued
CreateCompleted(t) ==
    /\ op[t] = "create"
    /\ hr[t] = errOperationPending
    /\ SinceCallIssued(t) # {}
    /\ \A i \in DOMAIN notified[t] :
          /\ notified[t][i].notType = hcsNotificationSystemCreateCompleted
          /\ notified[t][i].status = S_OK

\* C35: when the create call returned pending, the callback could be
\* registered, and the successful create-completed notification was
\* delivered at some time after the call was issued (before the
\* registration included), create returns nil with the valid handle: it
\* neither times out nor closes the handle.
C35_CreateSeesCompletion ==
    \A t \in Threads :
        (pc[t] = "done" /\ CreateCompleted(t) /\ RegisteredOk(t) # {}) =>
            /\ ret[t] = [err |-> Nil, system |-> SystemHandle]
            /\ CountCalls(t, "HcsCloseComputeSystem") = 0


\* ---------------------------------------------------------------------
\* InteractiveShell: the flow left behind and the closed handle

\* InteractiveShell opened the console handle, has returned and closed it
ShellClosedHandle == isPc = "returned" /\ ~hOpen /\ fpc["reader"] # "off"

\* C36: once InteractiveShell has closed the console handle no operation
\* of a flow is pending against it and no flow has issued a read or a
\* write on it (which the closed handle answers with ERROR_INVALID_HANDLE).
C36_NoIoAfterClose ==
    ShellClosedHandle =>
        \A f \in Flows :
            /\ io[f] # "pending"
            /\ fcause[f] # ERROR_INVALID_HANDLE


\* ---------------------------------------------------------------------
\* stdinToPipe: what reaches the guest of what was read

WriterEnded == fpc["writer"] \in {"send", "done"}

\* C37: the bytes written to the pipe, followed by those in the buffer of a
\* write not yet completed, are the line-ending transform of all the bytes
\* read from the host's input, in order and once; a write is only issued
\* with a non-empty buffer; and a loop that ended on the host input's end
\* or read error has written the bytes that came with it, returning nil
\* for end of file and the read error otherwise.
C37_HostBytesForwardedOnce ==
    /\ piped \o outBuf = LineEndings(consumed, 1)
    /\ fpc["writer"] \in {"write", "wait"} => outBuf # <<>>
    /\ (WriterEnded /\ fcause["writer"] = Nil /\ readErr # Nil) =>
          /\ piped = LineEndings(consumed, 1)
          /\ fres["writer"] = IF readErr = EOF THEN Nil ELSE readErr

\* the last read returned CR LF together with end of file; the LF it left
\* was written and the loop ended with nil
C37_Witness ==
    /\ WriterEnded
    /\ readErr = EOF
    /\ readN = 2
    /\ consumed = <<CR, LF>>
    /\ piped = <<LF>>
    /\ fres["writer"] = Nil

\* a read that yields only the LF of a CR LF issues no write
C37_WitnessDroppedLF ==
    /\ fpc["writer"] = "read"
    /\ consumed = <<CR, LF>>
    /\ readN = 1
    /\ piped = <<LF>>
    /\ outBuf = <<>>


\* ---------------------------------------------------------------------
\* the older facade (registration after the call returned pending) and the
\* current one (registration before the call)

Awaiting == {"start", "shutdown", "terminate"}

NextVersions ==
    \/ \E o \in Awaiting \cup OlderOps, ok \in BOOLEAN : Invoke("main", o, ok)
    \/ FacadeStep("main")
    \/ \E k \in NotificationTypes, s \in StatusValues : Notify(k, s)

SpecVersions == Init /\ [][NextVersions]_vars

\* the answer of the service to the thread's callback registration, S_OK
\* when none was asked for
RegisterAnswer(t) ==
    IF RegisterFailed(t) = {} THEN S_OK
    ELSE calls[t][Least(RegisterFailed(t))].hr

\* what the current start, shutdown or terminate returns for the answers of
\* the service in t's run and the notifications its callback was run with
CurrentResult(t) ==
    LET o == Base(op[t])
        seen == DeliveredWanted(t)
    IN IF RegisterAnswer(t) # S_OK
       THEN Wrap("register " \o o \o " callback",
                 hresultError(RegisterAnswer(t), "HcsRegisterComputeSystemCallback"))
       ELSE IF ~argsOk[t] THEN EINVAL
       ELSE IF hr[t] = S_OK THEN Nil
       ELSE IF hr[t] # errOperationPending THEN hresultError(hr[t], "")
       ELSE IF seen = {} THEN TimeoutError(CeilingOf(o))
       ELSE CallbackErr(notified[t][Least(seen)].status)

\* no notification reached t's run before the place of the late
\* registration: all of them came during the wait or after it
NoneBeforeLateRegistration(t) ==
    \A i \in DOMAIN notified[t] :
        notified[t][i].at \notin {"register", "convert", "call", "incall"}

\* equal, but for the text of a time-out
SameButTimeoutText(a, b) ==
    \/ a = b
    \/ a.kind = "timeout" /\ b.kind = "timeout" /\ a.code = b.code

\* the older start, shutdown or terminate lost the completion: the call
\* returned pending, the callback was registered, every notification of
\* the run came before the registration, and the wait timed out
LostCompletion(t) ==
    /\ op[t] \in OlderOps
    /\ hr[t] = errOperationPending
    /\ RegisteredOk(t) # {}
    /\ notified[t] # <<>>
    /\ \A i \in DOMAIN notified[t] : notified[t][i].at \in {"incall", "register"}

\* C38 as stated: the older start, shutdown and terminate return what the
\* current ones return on every schedule with no notification before the
\* late registration.
C38_SameResultWithoutEarlyNotification ==
    \A t \in Threads :
        (pc[t] = "done" /\ op[t] \in OlderOps /\ NoneBeforeLateRegistration(t)) =>
            ret[t].err = CurrentResult(t)

\* C38 amended: CurrentResult is what the current start, shutdown and
\* terminate return; the older ones return the same on every schedule with
\* no notification before the late registration, provided the registration
\* is not refused and up to the text of the time-out error, which in the
\* older version names the notification type; and the older ones time out
\* when the completion was notified only before the registration.
C38_SameResultWhenRegistered ==
    \A t \in Threads :
        /\ (pc[t] = "done" /\ op[t] \in Awaiting) => ret[t].err = CurrentResult(t)
        /\ (pc[t] = "done" /\ op[t] \in OlderOps /\ NoneBeforeLateRegistration(t)
              /\ RegisterFailed(t) = {}) =>
                SameButTimeoutText(ret[t].err, CurrentResult(t))
        /\ (pc[t] = "done" /\ LostCompletion(t)) => ret[t].err.kind = "timeout"

\* the older start returned pending, StartCompleted with status 0 was
\* delivered between that return and the registration, and start timed out
C38_Witness ==
    /\ pc[Main] = "done"
    /\ op[Main] = "old start"
    /\ LostCompletion(Main)
    /\ notified[Main] = <<[notType |-> hcsNotificationSystemStartCompleted,
                           status |-> S_OK, at |-> "register", cb |-> FALSE]>>
    /\ ret[Main].err = TimeoutErrorNaming(120, hcsNotificationSystemStartCompleted)

====
